---------------------------- MODULE Spec2Model ----------------------------
(***************************************************************************)
(* A model of the babblewitz harness (pdx-tools/babblewitz, babblewitz-cli):*)
(* the build/execute lifecycle of ImplementationExecutor, the wire protocol *)
(* of execute (argument vector, stdin/stdout pipes, reply decoding), the    *)
(* corpus directive parser and the can-parse conformance aggregation.       *)
(*                                                                          *)
(* Text is modelled as a sequence of one-character strings; a byte that is  *)
(* not valid UTF-8 is the symbol BadByte, which String::from_utf8_lossy     *)
(* turns into the replacement character Replacement.                        *)
(***************************************************************************)
EXTENDS Integers, Sequences, FiniteSets, TLC

VARIABLES
    reply,          \* SpecDecode: the worker's (status, stdout, stderr)
    outcome,        \* SpecDecode: what execute returned for it
    call,           \* SpecCommand: execute's implementation, task and games
    spawned,        \* SpecCommand: the process execute asks for, or its error
    exec,           \* SpecExecute: the harness inside one execute call
    child,          \* SpecExecute: the worker process
    pipe,           \* SpecExecute: the child's stdin, stdout and stderr pipes
    source,         \* SpecCorpus: how a corpus file's bytes are laid out
    parsed,         \* SpecCorpus: what parse_corpus_content returned for them
    target,         \* Spec: the implementation under test
    corpus_dir,     \* Spec: the files of corpus/game in walk order
    run,            \* Spec: the conformance run of the implementation
    impls_dir,      \* SpecBuildAll: the entries of impls/ in read_dir order
    build_all,      \* SpecBuildAll: one build_all_implementations call
    bench_setup,    \* SpecBench: the command, implementations and corpus/saves
    bench,          \* SpecBench: one benchmark run
    batch           \* SpecAll: one run_all_can_parse call

decodeVars == <<reply, outcome>>
commandVars == <<call, spawned>>
executeVars == <<exec, child, pipe>>
corpusVars == <<source, parsed>>
conformanceVars == <<target, corpus_dir, run>>
buildAllVars == <<impls_dir, build_all>>
benchVars == <<bench_setup, bench>>
batchVars == <<batch>>
vars ==
    <<decodeVars, commandVars, executeVars, corpusVars, conformanceVars,
      buildAllVars, benchVars, batchVars>>

(***************************************************************************)
(* Text helpers (std::str)                                                  *)
(***************************************************************************)
Digits == {"0", "1", "2", "3", "4", "5", "6", "7", "8", "9"}

\* char::is_whitespace, restricted to the characters the model uses
WhiteSpace == {" ", "\t", "\n", "\r"}

BadByte == "\\xFF"
Replacement == "\\uFFFD"

\* String::from_utf8_lossy: every invalid byte becomes U+FFFD
FromUtf8Lossy(bytes) ==
    [i \in 1..Len(bytes) |-> IF bytes[i] = BadByte THEN Replacement ELSE bytes[i]]

StripSuffixCr(s) ==
    IF Len(s) > 0 /\ s[Len(s)] = "\r" THEN SubSeq(s, 1, Len(s) - 1) ELSE s

\* str::lines: split after every "\n"; a line loses its "\n" and then one
\* "\r" before it; a last piece without "\n" is a line unless it is empty
Lines(s) ==
    LET RECURSIVE Go(_, _, _)
        Go(i, cur, acc) ==
            IF i > Len(s)
            THEN IF cur = <<>> THEN acc ELSE Append(acc, cur)
            ELSE IF s[i] = "\n"
                 THEN Go(i + 1, <<>>, Append(acc, StripSuffixCr(cur)))
                 ELSE Go(i + 1, Append(cur, s[i]), acc)
    IN Go(1, <<>>, <<>>)

RECURSIVE TrimStart(_)
TrimStart(s) ==
    IF s # <<>> /\ s[1] \in WhiteSpace THEN TrimStart(Tail(s)) ELSE s

RECURSIVE TrimEnd(_)
TrimEnd(s) ==
    IF s # <<>> /\ s[Len(s)] \in WhiteSpace
    THEN TrimEnd(SubSeq(s, 1, Len(s) - 1))
    ELSE s

\* str::trim
Trim(s) == TrimEnd(TrimStart(s))

(***************************************************************************)
(* Decimal numerals.  A parsed integer is kept as its canonical numeral     *)
(* (digits without leading zeros), since the 64- and 128-bit values exceed  *)
(* what TLC's integers hold.                                                *)
(***************************************************************************)
RECURSIVE StripZeros(_)
StripZeros(ds) ==
    IF Len(ds) > 1 /\ ds[1] = "0" THEN StripZeros(Tail(ds)) ELSE ds

DigitVal(d) == CHOOSE n \in 0..9 : ToString(n) = d

\* a <= b for canonical numerals
RECURSIVE LexLeq(_, _)
LexLeq(a, b) ==
    IF a = <<>> THEN TRUE
    ELSE IF DigitVal(a[1]) < DigitVal(b[1]) THEN TRUE
    ELSE IF DigitVal(a[1]) > DigitVal(b[1]) THEN FALSE
    ELSE LexLeq(Tail(a), Tail(b))

NumeralLeq(a, b) ==
    \/ Len(a) < Len(b)
    \/ Len(a) = Len(b) /\ LexLeq(a, b)

\* u64::MAX = 18446744073709551615
U64Max ==
    <<"1","8","4","4","6","7","4","4","0","7","3","7","0","9","5","5","1","6","1","5">>

\* u128::MAX = 340282366920938463463374607431768211455
U128Max ==
    <<"3","4","0","2","8","2","3","6","6","9","2","0","9","3","8","4","6","3","4",
      "6","3","3","7","4","6","0","7","4","3","1","7","6","8","2","1","1","4","5","5">>

\* <uN as FromStr>::from_str: an optional "+", then one or more digits, and
\* the value must not exceed uN::MAX (checked_mul/checked_add overflow is Err)
ParseUnsigned(src, max) ==
    LET digits == IF src # <<>> /\ src[1] = "+" THEN Tail(src) ELSE src
    IN IF /\ digits # <<>>
          /\ \A i \in 1..Len(digits) : digits[i] \in Digits
          /\ NumeralLeq(StripZeros(digits), max)
       THEN [ok |-> TRUE, value |-> StripZeros(digits)]
       ELSE [ok |-> FALSE, value |-> <<>>]

ParseU64(src) == ParseUnsigned(src, U64Max)
ParseU128(src) == ParseUnsigned(src, U128Max)

(***************************************************************************)
(* execute: decoding the worker's reply (executor.rs 142-182)               *)
(***************************************************************************)
\* std::process::ExitStatus: exited with a code, or ended by a signal
ExitStatuses ==
    { [kind |-> "exited", code |-> "0"],
      [kind |-> "exited", code |-> "1"],
      [kind |-> "signaled", code |-> "9"] }

\* ExitStatus::success
StatusSuccess(status) == status.kind = "exited" /\ status.code = "0"

\* format!("{:?}", output.status.code()) : Some(<code>) or None
StatusCodeDebug(status) ==
    IF status.kind = "exited" THEN <<"Some(", status.code, ")">> ELSE <<"None">>

Success(elapsed) == [kind |-> "Success", elapsed |-> elapsed]
Error(error) == [kind |-> "Error", error |-> error]

\* the combined stdout/stderr message (executor.rs 161-179)
CombinedOutput(status, stdout, stderr) ==
    LET out == IF Trim(stdout) # <<>> THEN Trim(stdout) ELSE <<>>
        combined_output ==
            IF Trim(stderr) # <<>>
            THEN (IF out # <<>> THEN out \o <<" ">> ELSE out) \o Trim(stderr)
            ELSE out
    IN IF combined_output = <<>>
       THEN <<"Process exited with code: ">> \o StatusCodeDebug(status)
       ELSE combined_output

ExecuteDecodeNoExitCheck(status, stdout_bytes, stderr_bytes) ==
    LET stdout == FromUtf8Lossy(stdout_bytes)
        lines == Lines(stdout)
    IN IF Len(lines) >= 2 /\ ParseU64(lines[1]).ok
       THEN Success(ParseU64(lines[1]).value)
       ELSE Error(<<>>)

ExecuteDecodeJoinNoSpace(status, stdout_bytes, stderr_bytes) ==
    LET stdout == FromUtf8Lossy(stdout_bytes)
        stderr == FromUtf8Lossy(stderr_bytes)
        lines == Lines(stdout)
    IN IF StatusSuccess(status) /\ Len(lines) >= 2 /\ ParseU64(lines[1]).ok
       THEN Success(ParseU64(lines[1]).value)
       ELSE IF Len(lines) >= 2 /\ ParseU128(lines[1]).ok
            THEN Error(lines[2])
            ELSE IF Trim(stdout) \o Trim(stderr) = <<>>
                 THEN Error(CombinedOutput(status, stdout, stderr))
                 ELSE Error(Trim(stdout) \o Trim(stderr))

\* the value execute returns once the worker's output has been collected
ExecuteDecode(status, stdout_bytes, stderr_bytes) ==
    LET stdout == FromUtf8Lossy(stdout_bytes)
        stderr == FromUtf8Lossy(stderr_bytes)
        lines == Lines(stdout)
    IN IF StatusSuccess(status) /\ Len(lines) >= 2 /\ ParseU64(lines[1]).ok
       THEN Success(ParseU64(lines[1]).value)
       ELSE IF Len(lines) >= 2 /\ ParseU128(lines[1]).ok
            THEN Error(lines[2])
            ELSE Error(CombinedOutput(status, stdout, stderr))

(***************************************************************************)
(* SpecDecode: execute's decoding applied to every reply of a bounded set   *)
(***************************************************************************)
MaxStdoutLen == 4

StringsUpTo(alphabet, n) == UNION {[1..k -> alphabet] : k \in 0..n}

ReplySomeOutput ==
    <<"1","5","0","0","0","0","0","\n","S","o","m","e","O","u","t","p","u",
      "t">>
ReplyBadToken ==
    <<"2","0","0","0","0","0","0","\n","E","r","r","o","r",":"," ","b","a",
      "d"," ","t","o","k","e","n">>
ReplyNotANumber ==
    <<"n","o","t","_","a","_","n","u","m","b","e","r","\n","S","o","m","e",
      " ","o","u","t","p","u","t">>
\* every short output over the alphabet, the outputs of the code's tests, and
\* outputs whose first line is u64::MAX, u64::MAX + 1, u128::MAX + 1, a
\* numeral with leading zeros (with CRLF), and one with an invalid byte
StdoutSamples ==
    StringsUpTo({"1", "x", "+", " ", "\n", "\r"}, MaxStdoutLen)
        \cup {ReplySomeOutput, ReplyBadToken, ReplyNotANumber,
              <<"1","8","4","4","6","7","4","4","0","7","3","7","0","9","5",
                "5","1","6","1","5","\n","o","k">>,
              <<"1","8","4","4","6","7","4","4","0","7","3","7","0","9","5",
                "5","1","6","1","6","\n","o","k">>,
              <<"3","4","0","2","8","2","3","6","6","9","2","0","9","3","8",
                "4","6","3","4","6","3","3","7","4","6","0","7","4","3","1",
                "7","6","8","2","1","1","4","5","6","\n","o","k">>,
              <<"0","0","7","\r","\n","o","k","\n","m","o","r","e">>,
              <<"1","\n","a",BadByte,"b">>}

Replies ==
    [status : ExitStatuses,
     stdout : StdoutSamples,
     stderr : {<<>>, <<" ", "\n">>, <<"e", "r", "r", "\n">>}]

NoOutcome == [kind |-> "none"]

DecodeInit ==
    /\ reply \in Replies
    /\ outcome = NoOutcome

Decode ==
    /\ outcome = NoOutcome
    /\ outcome' = ExecuteDecode(reply.status, reply.stdout, reply.stderr)
    /\ UNCHANGED reply


(***************************************************************************)
(* Claims about the reply decoding (SpecDecode)                             *)
(***************************************************************************)
\* the decimal numeral `numeral` written with an optional "+" and any number
\* of leading zeros is the text `line`
DenotesNumeral(line, numeral) ==
    /\ numeral # <<>>
    /\ \A i \in 1..Len(numeral) : numeral[i] \in Digits
    /\ Len(numeral) > 1 => numeral[1] # "0"
    /\ \E sign \in {<<>>, <<"+">>} : \E z \in 0..Len(line) :
          line = sign \o [i \in 1..z |-> "0"] \o numeral

\* the text is an unsigned integer of at most the given width
IsUnsignedUpTo(line, max) ==
    \E k \in 1..Len(line) :
        LET numeral == SubSeq(line, Len(line) - k + 1, Len(line))
        IN DenotesNumeral(line, numeral) /\ NumeralLeq(numeral, max)

ReplyText == FromUtf8Lossy(reply.stdout)
ReplyErrText == FromUtf8Lossy(reply.stderr)
ReplyLines == Lines(ReplyText)

\* C2: execute returns Success exactly when the worker exited successfully,
\* stdout has at least two lines and line 1 is an unsigned (64-bit) integer;
\* the duration is that many microseconds; line 2, later lines and stderr
\* play no part (the two replies of the specification are both Success).
C2_SuccessDecodeRule ==
    outcome # NoOutcome =>
      /\ outcome.kind = "Success" <=>
            /\ StatusSuccess(reply.status)
            /\ Len(ReplyLines) >= 2
            /\ IsUnsignedUpTo(ReplyLines[1], U64Max)
      /\ outcome.kind = "Success" =>
            DenotesNumeral(ReplyLines[1], outcome.elapsed)
      /\ StatusSuccess(reply.status) /\ reply.stdout = ReplyBadToken =>
            outcome = Success(<<"2","0","0","0","0","0","0">>)
      /\ StatusSuccess(reply.status) /\ reply.stdout = ReplySomeOutput =>
            outcome = Success(<<"1","5","0","0","0","0","0">>)

C2_Witness ==
    /\ outcome.kind = "Success"
    /\ reply.stdout = ReplyBadToken
    /\ reply.stderr # <<>>

MsgBadToken ==
    <<"E","r","r","o","r",":"," ","b","a","d"," ","t","o","k","e","n">>

\* C3: the message of an Error outcome is line 2 of stdout when stdout has
\* at least two lines and line 1 parses as a number; otherwise trimmed stdout
\* and trimmed stderr, those that are non-empty, joined by one space;
\* otherwise the generic message carrying the exit code.
C3_ErrorMessageRule ==
    outcome.kind = "Error" =>
      LET out == Trim(ReplyText)
          err == Trim(ReplyErrText)
      IN /\ IF Len(ReplyLines) >= 2 /\ IsUnsignedUpTo(ReplyLines[1], U128Max)
            THEN outcome.error = ReplyLines[2]
            ELSE IF out # <<>> /\ err # <<>>
                 THEN outcome.error = out \o <<" ">> \o err
            ELSE IF out # <<>> THEN outcome.error = out
            ELSE IF err # <<>> THEN outcome.error = err
            ELSE /\ outcome.error[1] = "Process exited with code: "
                 /\ reply.status.kind = "exited" =>
                        outcome.error[3] = reply.status.code
         /\ reply.stdout = ReplyBadToken => outcome.error = MsgBadToken
         /\ reply.stdout = ReplyNotANumber =>
                outcome.error = ReplyNotANumber \o
                    (IF err # <<>> THEN <<" ">> \o err ELSE <<>>)

C3_Witness ==
    /\ outcome.kind = "Error"
    /\ reply.stdout = ReplyBadToken
    /\ ~StatusSuccess(reply.status)
    /\ Trim(ReplyErrText) # <<>>

(***************************************************************************)
(* Games, task types and the implementation manifest                        *)
(* (savefile.rs, config.rs, implementation.rs)                              *)
(***************************************************************************)
\* enum Game, in its declaration order, which is its derived Ord
Game == {"Ck3", "Eu4", "Hoi4", "Imperator", "Stellaris", "Vic3"}

GameOrd(game) ==
    CASE game = "Ck3" -> 0
      [] game = "Eu4" -> 1
      [] game = "Hoi4" -> 2
      [] game = "Imperator" -> 3
      [] game = "Stellaris" -> 4
      [] game = "Vic3" -> 5

Eu4Str == <<"e","u","4">>
Ck3Str == <<"c","k","3">>
Vic3Str == <<"v","i","c","3">>
Hoi4Str == <<"h","o","i","4">>
ImperatorStr == <<"i","m","p","e","r","a","t","o","r">>
StellarisStr == <<"s","t","e","l","l","a","r","i","s">>

\* Game::as_str
GameAsStr(game) ==
    CASE game = "Eu4" -> Eu4Str
      [] game = "Ck3" -> Ck3Str
      [] game = "Vic3" -> Vic3Str
      [] game = "Hoi4" -> Hoi4Str
      [] game = "Imperator" -> ImperatorStr
      [] game = "Stellaris" -> StellarisStr

TaskType == {"CanParse", "Deserialization"}

CanParseStr == <<"c","a","n","-","p","a","r","s","e">>
DeserializationStr ==
    <<"d","e","s","e","r","i","a","l","i","z","a","t","i","o","n">>

\* TaskType::as_str
TaskAsStr(task) ==
    IF task = "CanParse" THEN CanParseStr ELSE DeserializationStr

ProjectType == {"Rust", "Gradle", "Nodejs", "Go", "Make"}

None == [some |-> FALSE]
Some(v) == [some |-> TRUE, value |-> v]

Make == <<"m","a","k","e">>

\* get_project_config (the non-Windows build: cfg!(windows) is false)
get_project_config(project_type) ==
    CASE project_type = "Rust" ->
            \* "cargo build --release" and "cargo run --release --quiet --"
            [build_command |->
                Some(<<"c","a","r","g","o"," ","b","u","i","l","d"," ","-","-",
                  "r","e","l","e","a","s","e">>),
             run_command |->
                <<"c","a","r","g","o"," ","r","u","n"," ","-","-","r","e",
                  "l","e","a","s","e"," ","-","-","q","u","i","e","t"," ",
                  "-","-">>]
      [] project_type = "Gradle" ->
            \* "./gradlew build" and "./gradlew run"
            [build_command |->
                Some(<<".","/","g","r","a","d","l","e","w"," ","b","u","i","l",
                  "d">>),
             run_command |->
                <<".","/","g","r","a","d","l","e","w"," ","r","u","n">>]
      [] project_type = "Nodejs" ->
            \* "npm install" and "node main.js"
            [build_command |->
                Some(<<"n","p","m"," ","i","n","s","t","a","l","l">>),
             run_command |->
                <<"n","o","d","e"," ","m","a","i","n",".","j","s">>]
      [] project_type = "Go" ->
            \* "go build" and "go run"
            [build_command |->
                Some(<<"g","o"," ","b","u","i","l","d">>),
             run_command |->
                <<"g","o"," ","r","u","n">>]
      [] project_type = "Make" ->
            \* "make" and "make run"
            [build_command |->
                Some(Make),
             run_command |->
                <<"m","a","k","e"," ","r","u","n">>]

\* ImplementationConfig::supported_games_for_task: tasks is a map from the
\* configured task types to their game lists; a missing task is the empty list
supported_games_for_task(config, task) ==
    IF task \in DOMAIN config.tasks THEN config.tasks[task] ELSE <<>>

\* Implementation::games_for_task
games_for_task(implementation, task) ==
    supported_games_for_task(implementation.config, task)

\* Implementation::supports_task
supports_task(implementation, task) ==
    games_for_task(implementation, task) # <<>>

(***************************************************************************)
(* shell_words::split, the tokenizer build and execute call                 *)
(* (its behaviour on quotes and escaped spaces is pinned by                 *)
(* test_shell_command_parsing)                                              *)
(***************************************************************************)
ShellDelimiters == {" ", "\t", "\n"}

ShellSplit(s) ==
    LET RECURSIVE Go(_, _, _, _)
        \* st: the tokenizer's state; word: the word being built; words: done
        Go(i, st, word, words) ==
            IF i > Len(s)
            THEN CASE st \in {"Delimiter", "Comment"} ->
                        [ok |-> TRUE, parts |-> words]
                   [] st \in {"Backslash", "UnquotedBackslash"} ->
                        [ok |-> TRUE,
                         parts |-> Append(words, Append(word, "\\"))]
                   [] st = "Unquoted" ->
                        [ok |-> TRUE, parts |-> Append(words, word)]
                   [] OTHER -> [ok |-> FALSE, parts |-> <<>>]
            ELSE LET c == s[i] IN
                 CASE st = "Delimiter" ->
                        IF c = "'" THEN Go(i + 1, "SingleQuoted", word, words)
                        ELSE IF c = "\"" THEN Go(i + 1, "DoubleQuoted", word, words)
                        ELSE IF c = "\\" THEN Go(i + 1, "Backslash", word, words)
                        ELSE IF c \in ShellDelimiters
                             THEN Go(i + 1, "Delimiter", word, words)
                        ELSE IF c = "#" THEN Go(i + 1, "Comment", word, words)
                        ELSE Go(i + 1, "Unquoted", Append(word, c), words)
                   [] st = "Backslash" ->
                        IF c = "\n" THEN Go(i + 1, "Delimiter", word, words)
                        ELSE Go(i + 1, "Unquoted", Append(word, c), words)
                   [] st = "Unquoted" ->
                        IF c = "'" THEN Go(i + 1, "SingleQuoted", word, words)
                        ELSE IF c = "\"" THEN Go(i + 1, "DoubleQuoted", word, words)
                        ELSE IF c = "\\"
                             THEN Go(i + 1, "UnquotedBackslash", word, words)
                        ELSE IF c \in ShellDelimiters
                             THEN Go(i + 1, "Delimiter", <<>>, Append(words, word))
                        ELSE Go(i + 1, "Unquoted", Append(word, c), words)
                   [] st = "UnquotedBackslash" ->
                        IF c = "\n" THEN Go(i + 1, "Unquoted", word, words)
                        ELSE Go(i + 1, "Unquoted", Append(word, c), words)
                   [] st = "SingleQuoted" ->
                        IF c = "'" THEN Go(i + 1, "Unquoted", word, words)
                        ELSE Go(i + 1, "SingleQuoted", Append(word, c), words)
                   [] st = "DoubleQuoted" ->
                        IF c = "\"" THEN Go(i + 1, "Unquoted", word, words)
                        ELSE IF c = "\\"
                             THEN Go(i + 1, "DoubleQuotedBackslash", word, words)
                        ELSE Go(i + 1, "DoubleQuoted", Append(word, c), words)
                   [] st = "DoubleQuotedBackslash" ->
                        IF c = "\n" THEN Go(i + 1, "DoubleQuoted", word, words)
                        ELSE IF c \in {"$", "\"", "\\"}
                             THEN Go(i + 1, "DoubleQuoted", Append(word, c), words)
                        ELSE Go(i + 1, "DoubleQuoted",
                                Append(Append(word, "\\"), c), words)
                   [] st = "Comment" ->
                        IF c = "\n" THEN Go(i + 1, "Delimiter", word, words)
                        ELSE Go(i + 1, "Comment", word, words)
    IN Go(1, "Delimiter", <<>>, <<>>)

(***************************************************************************)
(* execute: resolving the run command and building the worker's argument    *)
(* vector (executor.rs 99-128)                                              *)
(***************************************************************************)
\* the run command: the manifest's override, else the project type's default
\* a variant of ResolveRunCommand that takes the whole [execution] table as
\* the override, so that a table without run-command is an empty command
ResolveRunCommandBySection(implementation) ==
    LET execution == implementation.config.execution
    IN IF execution.some
       THEN IF execution.value.run_command.some
            THEN execution.value.run_command.value ELSE <<>>
       ELSE get_project_config(implementation.config.project_type).run_command

\* executor.rs 100-108
ResolveRunCommand(implementation) ==
    LET execution == implementation.config.execution
    IN IF execution.some /\ execution.value.run_command.some
       THEN execution.value.run_command.value
       ELSE get_project_config(implementation.config.project_type).run_command

TaskFlag == <<"-","-","t","a","s","k">>
GameFlag == <<"-","-","g","a","m","e">>

\* a variant that passes each game once
GameArgsDedup(games) ==
    LET RECURSIVE Go(_, _)
        Go(rest, seen) ==
            IF rest = <<>> THEN <<>>
            ELSE IF Head(rest) \in seen THEN Go(Tail(rest), seen)
            ELSE <<GameFlag, GameAsStr(Head(rest))>>
                    \o Go(Tail(rest), seen \cup {Head(rest)})
    IN Go(games, {})

RECURSIVE GameArgs(_)
GameArgs(games) ==
    IF games = <<>> THEN <<>>
    ELSE <<GameFlag, GameAsStr(Head(games))>> \o GameArgs(Tail(games))

\* cmd.args(&parts[1..]).arg("--task").arg(task.as_str()), then "--game" and
\* the game's tag for each game of the caller's slice
CommandArgs(parts, task, games) ==
    Tail(parts) \o <<TaskFlag, TaskAsStr(task)>> \o GameArgs(games)

\* what execute asks the operating system to spawn, or the harness-level
\* error it returns before spawning anything
ExecuteCommand(implementation, task, games) ==
    LET run_command == ResolveRunCommand(implementation)
        split == ShellSplit(run_command)
    IN IF ~split.ok
       THEN [ok |-> FALSE, error |-> "Failed to parse run command"]
       ELSE IF split.parts = <<>>
       THEN [ok |-> FALSE, error |-> "Empty run command"]
       ELSE [ok |-> TRUE,
             program |-> split.parts[1],
             args |-> CommandArgs(split.parts, task, games),
             current_dir |-> implementation.path]

(***************************************************************************)
(* SpecCommand: the command line of execute for every manifest, task and    *)
(* game list of a bounded set                                               *)
(***************************************************************************)
MaxGames == 2

CmdQuoted ==
    <<"p","r","o","g","r","a","m"," ","\"","f","i","l","e"," ","w","i","t",
      "h"," ","s","p","a","c","e","s",".","t","x","t","\""," ","-","-","f",
      "l","a","g">>
CmdEmpty == <<>>
CmdUnterminated == <<"w"," ","\"","a">>

\* the commands of test_shell_command_parsing (quoted, and with escaped
\* spaces), a plain command, and commands that are empty, blank, a comment,
\* unterminated, or single-quoted
RunCommandSamples ==
    {CmdQuoted,
     <<"p","r","o","g","r","a","m"," ","f","i","l","e","\\"," ","w","i","t",
       "h","\\"," ","s","p","a","c","e","s",".","t","x","t"," ","-","-","f",
       "l","a","g">>,
     <<".","/","w">>, CmdEmpty, <<" "," ">>, <<"#"," ","w">>, CmdUnterminated,
     <<"w"," ","'","a"," ","b","'","c">>}

\* the manifest's optional [execution] table
ExecutionSamples ==
    {None, Some([build_command |-> Some(Make), run_command |-> None])}
        \cup {Some([build_command |-> None, run_command |-> Some(c)]) :
                c \in RunCommandSamples}

NoTasks == [t \in {} |-> <<>>]

CommandImplementations ==
    { [name |-> "impl-a", path |-> "impls/impl-a",
       config |-> [project_type |-> pt, execution |-> ex, tasks |-> NoTasks]] :
        pt \in ProjectType, ex \in ExecutionSamples }

NotSpawned == [ok |-> FALSE, error |-> "not called"]

CommandInit ==
    /\ call \in [implementation : CommandImplementations,
                 task : TaskType,
                 games : StringsUpTo(Game, MaxGames)]
    /\ spawned = NotSpawned

\* execute up to the point where it spawns the worker
CommandExecute ==
    /\ spawned = NotSpawned
    /\ spawned' = ExecuteCommand(call.implementation, call.task, call.games)
    /\ UNCHANGED call

CommandIdle ==
    /\ call = [implementation |-> "none"]
    /\ spawned = NotSpawned

DecodeIdle ==
    /\ reply = [status |-> "none"]
    /\ outcome = NoOutcome

(***************************************************************************)
(* Claims about the worker's command line (SpecCommand)                     *)
(***************************************************************************)
CallParts == ShellSplit(ResolveRunCommand(call.implementation)).parts

\* C5: the worker's argument vector is the run command's tokens after the
\* first, then "--task" and the task's token once, then "--game" and the
\* game's token once per element of games, in the caller's order, and nothing
\* after that.
C5_ArgumentContract ==
    spawned.ok =>
      LET n == Len(CallParts) - 1
          args == spawned.args
      IN /\ spawned.program = CallParts[1]
         /\ Len(args) = n + 2 + 2 * Len(call.games)
         /\ \A i \in 1..n : args[i] = CallParts[i + 1]
         /\ args[n + 1] = TaskFlag
         /\ args[n + 2] = TaskAsStr(call.task)
         /\ \A k \in 1..Len(call.games) :
              /\ args[n + 2 * k + 1] = GameFlag
              /\ args[n + 2 * k + 2] = GameAsStr(call.games[k])
         /\ Cardinality({i \in (n + 1)..Len(args) : args[i] = GameFlag})
                = Len(call.games)
         /\ Cardinality({i \in (n + 1)..Len(args) : args[i] = TaskFlag}) = 1
         /\ ( /\ call.implementation.config.project_type = "Nodejs"
              /\ ~call.implementation.config.execution.some
              /\ call.task = "CanParse"
              /\ call.games = <<"Eu4", "Ck3">> )
            => args = << <<"m","a","i","n",".","j","s">>, TaskFlag, CanParseStr,
                         GameFlag, Eu4Str, GameFlag, Ck3Str >>

C5_Witness ==
    /\ spawned.ok
    /\ call.games = <<"Eu4", "Eu4">>
    /\ call.implementation.config.execution
          = Some([build_command |-> None, run_command |-> Some(CmdQuoted)])
    /\ Len(spawned.args) = 8

(***************************************************************************)
(* SpecExecute: one call of execute, step by step, with the worker process  *)
(* and the three pipes between them (executor.rs 93-183)                    *)
(*                                                                          *)
(* A pipe holds at most PipeCap bytes: a writer blocks while it is full, a  *)
(* reader blocks while it is empty and its write end is open.  Writing to a *)
(* pipe whose read end is closed fails (EPIPE).  The worker is a sequential *)
(* program: it commits to its next system call (child.op) and blocks in it. *)
(***************************************************************************)
PipeCap == 2
MaxContent == 3

WorkerStdout == <<"7", "\n", "k", "\n">>

\* what a worker does: "read_first" reads stdin to its end before it writes
\* anything; "streaming" reads stdin while it writes; "no_read" writes its
\* output and exits without reading stdin; "close_stdin" closes its stdin
\* without reading it, and writes its output and exits afterwards
WorkerPlans ==
    [kind : {"read_first", "streaming", "no_read", "close_stdin"},
     status : {[kind |-> "exited", code |-> "0"], [kind |-> "exited", code |-> "1"]},
     stdout : {<<>>, WorkerStdout},
     stderr : {<<>>, <<"u", "s", "a", "g", "e">>}]

ExecuteImplementations ==
    { [name |-> "impl-a", path |-> "impls/impl-a",
       config |-> [project_type |-> "Nodejs", execution |-> ex, tasks |-> NoTasks]] :
        ex \in {None,
                Some([build_command |-> None, run_command |-> Some(CmdEmpty)]),
                Some([build_command |-> None, run_command |-> Some(CmdUnterminated)])} }

NoChild ==
    [pc |-> "none", plan |-> [kind |-> "none"], op |-> "idle", eof |-> FALSE,
     read |-> 0, out_i |-> 0, err_i |-> 0]

NoPipe ==
    [stdin |-> 0, stdin_w_open |-> FALSE, stdin_r_open |-> FALSE,
     stdout |-> <<>>, stderr |-> <<>>]

NoResult == [kind |-> "none"]
Err(error) == [kind |-> "Err", error |-> error]
Ok(value) == [kind |-> "Ok", value |-> value]

ExecuteInit ==
    /\ exec \in [implementation : ExecuteImplementations,
                 task : {"CanParse"},
                 games : {<<"Eu4">>},
                 content : UNION {[1..n -> {"c"}] : n \in 0..MaxContent},
                 pc : {"start"},
                 written : {0},
                 stdout : {<<>>},
                 stderr : {<<>>},
                 result : {NoResult}]
    /\ child = NoChild
    /\ pipe = NoPipe

\* lines 99-115: the run command does not tokenize, or has no token
ExecCommandError ==
    /\ exec.pc = "start"
    /\ ~ExecuteCommand(exec.implementation, exec.task, exec.games).ok
    /\ exec' = [exec EXCEPT
                  !.pc = "returned",
                  !.result = Err(ExecuteCommand(exec.implementation, exec.task,
                                                exec.games).error)]
    /\ UNCHANGED <<child, pipe>>

\* line 130: cmd.spawn()? fails (the program is not found)
ExecSpawnError ==
    /\ exec.pc = "start"
    /\ ExecuteCommand(exec.implementation, exec.task, exec.games).ok
    /\ exec' = [exec EXCEPT !.pc = "returned", !.result = Err("spawn")]
    /\ UNCHANGED <<child, pipe>>

\* lines 125-130: the worker starts, with all three streams piped
ExecSpawn ==
    /\ exec.pc = "start"
    /\ ExecuteCommand(exec.implementation, exec.task, exec.games).ok
    /\ \E plan \in WorkerPlans :
          child' = [NoChild EXCEPT !.pc = "running", !.plan = plan]
    /\ pipe' = [NoPipe EXCEPT !.stdin_w_open = TRUE, !.stdin_r_open = TRUE]
    /\ exec' = [exec EXCEPT !.pc = "write"]

\* line 136: stdin.write_all(content), one byte of it
ExecWrite ==
    /\ exec.pc = "write"
    /\ exec.written < Len(exec.content)
    /\ pipe.stdin_r_open
    /\ pipe.stdin < PipeCap
    /\ exec' = [exec EXCEPT !.written = @ + 1]
    /\ pipe' = [pipe EXCEPT !.stdin = @ + 1]
    /\ UNCHANGED child

\* line 136: write_all fails because the worker has closed its stdin; the ?
\* returns the error, dropping the Child (which neither kills nor reaps it)
ExecWriteBrokenPipe ==
    /\ exec.pc = "write"
    /\ exec.written < Len(exec.content)
    /\ ~pipe.stdin_r_open
    /\ exec' = [exec EXCEPT !.pc = "returned", !.result = Err("Broken pipe")]
    /\ pipe' = [pipe EXCEPT !.stdin_w_open = FALSE]
    /\ UNCHANGED child

ExecCloseStdinKeepOpen ==
    /\ exec.pc = "write"
    /\ exec.written = Len(exec.content)
    /\ exec' = [exec EXCEPT !.pc = "wait"]
    /\ UNCHANGED <<child, pipe>>

\* line 137: drop(stdin) once all of content is written
ExecCloseStdin ==
    /\ exec.pc = "write"
    /\ exec.written = Len(exec.content)
    /\ exec' = [exec EXCEPT !.pc = "wait"]
    /\ pipe' = [pipe EXCEPT !.stdin_w_open = FALSE]
    /\ UNCHANGED child

\* a variant of ExecReadStdout that also reads while content is being written
ExecReadStdoutEarly ==
    /\ exec.pc \in {"write", "wait"}
    /\ pipe.stdout # <<>>
    /\ exec' = [exec EXCEPT !.stdout = Append(@, Head(pipe.stdout))]
    /\ pipe' = [pipe EXCEPT !.stdout = Tail(@)]
    /\ UNCHANGED child

\* line 140: wait_with_output drains stdout and stderr together
ExecReadStdout ==
    /\ exec.pc = "wait"
    /\ pipe.stdout # <<>>
    /\ exec' = [exec EXCEPT !.stdout = Append(@, Head(pipe.stdout))]
    /\ pipe' = [pipe EXCEPT !.stdout = Tail(@)]
    /\ UNCHANGED child

ExecReadStderr ==
    /\ exec.pc = "wait"
    /\ pipe.stderr # <<>>
    /\ exec' = [exec EXCEPT !.stderr = Append(@, Head(pipe.stderr))]
    /\ pipe' = [pipe EXCEPT !.stderr = Tail(@)]
    /\ UNCHANGED child

\* lines 140-182: both streams are at their end and the worker has exited;
\* the reply is decoded and returned
ExecReturn ==
    /\ exec.pc = "wait"
    /\ child.pc = "exited"
    /\ pipe.stdout = <<>>
    /\ pipe.stderr = <<>>
    /\ exec' = [exec EXCEPT
                  !.pc = "returned",
                  !.result = Ok(ExecuteDecode(child.plan.status, exec.stdout,
                                              exec.stderr))]
    /\ UNCHANGED <<child, pipe>>

\* the worker decides on its next system call
WorkerChoose ==
    /\ child.pc = "running"
    /\ child.op = "idle"
    /\ \E op \in {"read", "close", "out", "err", "exit"} :
          /\ op = "read" =>
                child.plan.kind \in {"read_first", "streaming"} /\ ~child.eof
          /\ op = "close" =>
                child.plan.kind = "close_stdin" /\ ~child.eof
          /\ op = "out" =>
                /\ child.out_i < Len(child.plan.stdout)
                /\ child.plan.kind = "read_first" => child.eof
          /\ op = "err" =>
                /\ child.err_i < Len(child.plan.stderr)
                /\ child.plan.kind = "read_first" => child.eof
          /\ op = "exit" =>
                /\ child.out_i = Len(child.plan.stdout)
                /\ child.err_i = Len(child.plan.stderr)
                /\ child.plan.kind # "no_read" => child.eof
          /\ child' = [child EXCEPT !.op = op]
    /\ UNCHANGED <<exec, pipe>>

\* read(0): a byte of the content, or end of file once the harness has
\* closed its end and the pipe is empty
WorkerRead ==
    /\ child.pc = "running"
    /\ child.op = "read"
    /\ \/ /\ pipe.stdin > 0
          /\ pipe' = [pipe EXCEPT !.stdin = @ - 1]
          /\ child' = [child EXCEPT !.op = "idle", !.read = @ + 1]
       \/ /\ pipe.stdin = 0
          /\ ~pipe.stdin_w_open
          /\ child' = [child EXCEPT !.op = "idle", !.eof = TRUE]
          /\ UNCHANGED pipe
    /\ UNCHANGED exec

\* close(0): the worker closes its end of the stdin pipe and runs on; what
\* the pipe holds is discarded
WorkerCloseStdin ==
    /\ child.pc = "running"
    /\ child.op = "close"
    /\ child' = [child EXCEPT !.op = "idle", !.eof = TRUE]
    /\ pipe' = [pipe EXCEPT !.stdin_r_open = FALSE, !.stdin = 0]
    /\ UNCHANGED exec

\* write(1): a byte of the reply, when the stdout pipe has room
WorkerWriteStdout ==
    /\ child.pc = "running"
    /\ child.op = "out"
    /\ Len(pipe.stdout) < PipeCap
    /\ pipe' = [pipe EXCEPT
                  !.stdout = Append(@, child.plan.stdout[child.out_i + 1])]
    /\ child' = [child EXCEPT !.op = "idle", !.out_i = @ + 1]
    /\ UNCHANGED exec

\* write(2): a byte of the diagnostics, when the stderr pipe has room
WorkerWriteStderr ==
    /\ child.pc = "running"
    /\ child.op = "err"
    /\ Len(pipe.stderr) < PipeCap
    /\ pipe' = [pipe EXCEPT
                  !.stderr = Append(@, child.plan.stderr[child.err_i + 1])]
    /\ child' = [child EXCEPT !.op = "idle", !.err_i = @ + 1]
    /\ UNCHANGED exec

\* the worker exits: its ends of the pipes close
WorkerExit ==
    /\ child.pc = "running"
    /\ child.op = "exit"
    /\ child' = [child EXCEPT !.pc = "exited", !.op = "idle"]
    /\ pipe' = [pipe EXCEPT !.stdin_r_open = FALSE, !.stdin = 0]
    /\ UNCHANGED exec

ExecuteIdle ==
    /\ exec = [pc |-> "none"]
    /\ child = NoChild
    /\ pipe = NoPipe

(***************************************************************************)
(* Claims about one execute call (SpecExecute)                              *)
(***************************************************************************)
\* C4: execute returns a harness-level error only when the worker could not
\* be run at all; whenever the worker was spawned and ran to its exit,
\* execute returns an outcome; a worker that exits with a diagnostic without
\* reading its standard input is reported as an Error outcome.
C4_HarnessErrorOnlyWhenNotRun ==
    exec.pc = "returned" =>
      /\ exec.result.kind = "Err" => child.pc = "none"
      /\ child.pc = "exited" => exec.result.kind = "Ok"
      /\ ( /\ child.pc = "exited"
           /\ child.plan.kind = "no_read"
           /\ child.plan.status.code = "1" )
         => exec.result.kind = "Ok" /\ exec.result.value.kind = "Error"

\* the worker under test keeps the worker process contract: it reads all of
\* its standard input, before or while it writes its output
ContractWorker == child.plan.kind \in {"read_first", "streaming"}

HarnessBlockedWriting ==
    /\ exec.pc = "write"
    /\ exec.written < Len(exec.content)
    /\ pipe.stdin_r_open
    /\ pipe.stdin = PipeCap

WorkerBlockedWriting ==
    /\ child.pc = "running"
    /\ \/ child.op = "out" /\ Len(pipe.stdout) = PipeCap
       \/ child.op = "err" /\ Len(pipe.stderr) = PipeCap

WritesFitBeforeEof ==
    \/ child.plan.kind = "read_first"
    \/ /\ child.plan.kind = "streaming"
       /\ Len(child.plan.stdout) <= PipeCap
       /\ Len(child.plan.stderr) <= PipeCap

UpperCase ==
    <<"A","B","C","D","E","F","G","H","I","J","K","L","M","N","O","P","Q","R",
      "S","T","U","V","W","X","Y","Z">>
LowerCase ==
    <<"a","b","c","d","e","f","g","h","i","j","k","l","m","n","o","p","q","r",
      "s","t","u","v","w","x","y","z">>

\* str::to_lowercase, on the characters the model uses
ToLowercase(s) ==
    [i \in 1..Len(s) |->
        IF \E k \in 1..26 : UpperCase[k] = s[i]
        THEN LowerCase[CHOOSE k \in 1..26 : UpperCase[k] = s[i]]
        ELSE s[i]]

\* Game::from_str
GameFromStr(s) ==
    LET lower == ToLowercase(s)
    IN CASE lower = Eu4Str -> Some("Eu4")
         [] lower = Ck3Str -> Some("Ck3")
         [] lower = Vic3Str -> Some("Vic3")
         [] lower = Hoi4Str -> Some("Hoi4")
         [] lower = ImperatorStr -> Some("Imperator")
         [] lower = StellarisStr -> Some("Stellaris")
         [] OTHER -> None

\* str::split_whitespace
SplitWhitespace(s) ==
    LET RECURSIVE Go(_, _, _)
        Go(i, cur, acc) ==
            IF i > Len(s)
            THEN IF cur = <<>> THEN acc ELSE Append(acc, cur)
            ELSE IF s[i] \in WhiteSpace
                 THEN Go(i + 1, <<>>, IF cur = <<>> THEN acc ELSE Append(acc, cur))
                 ELSE Go(i + 1, Append(cur, s[i]), acc)
    IN Go(1, <<>>, <<>>)

AllStr == <<"a","l","l">>

\* the games "all" stands for, in the order the code lists them
AllGames == <<"Eu4", "Ck3", "Hoi4", "Vic3", "Imperator", "Stellaris">>

\* a variant that removes nothing
UniqueGamesKeepAll(expanded_games, unique_games) == unique_games \o expanded_games

\* "Remove duplicates while preserving order"
RECURSIVE UniqueGames(_, _)
UniqueGames(expanded_games, unique_games) ==
    IF expanded_games = <<>> THEN unique_games
    ELSE UniqueGames(Tail(expanded_games),
                     IF \E i \in 1..Len(unique_games) :
                            unique_games[i] = Head(expanded_games)
                     THEN unique_games
                     ELSE Append(unique_games, Head(expanded_games)))

\* a variant that skips the tokens it does not know
expand_game_aliases_skip(games_part) ==
    LET RECURSIVE Go(_, _)
        Go(tokens, expanded_games) ==
            IF tokens = <<>>
            THEN [ok |-> TRUE, games |-> UniqueGames(expanded_games, <<>>)]
            ELSE IF Head(tokens) = AllStr
                 THEN Go(Tail(tokens), expanded_games \o AllGames)
                 ELSE IF GameFromStr(Head(tokens)).some
                      THEN Go(Tail(tokens),
                              Append(expanded_games, GameFromStr(Head(tokens)).value))
                      ELSE Go(Tail(tokens), expanded_games)
    IN Go(SplitWhitespace(games_part), <<>>)

\* expand_game_aliases: Ok with the game list, or Err naming the first token
\* that is neither "all" nor a game
expand_game_aliases(games_part) ==
    LET RECURSIVE Go(_, _)
        Go(tokens, expanded_games) ==
            IF tokens = <<>>
            THEN [ok |-> TRUE, games |-> UniqueGames(expanded_games, <<>>)]
            ELSE IF Head(tokens) = AllStr
                 THEN Go(Tail(tokens), expanded_games \o AllGames)
                 ELSE IF GameFromStr(Head(tokens)).some
                      THEN Go(Tail(tokens),
                              Append(expanded_games, GameFromStr(Head(tokens)).value))
                      ELSE [ok |-> FALSE, unrecognized |-> Head(tokens)]
    IN Go(SplitWhitespace(games_part), <<>>)

DirectivePrefix ==
    <<"#"," ","@","b","a","b","b","l","e","w","i","t","z",":","g","a","m",
      "e","s",":">>

\* a variant that finds the prefix anywhere in the line
StartsWithAnywhere(s, prefix) ==
    \E i \in 0..(Len(s) - Len(prefix)) : SubSeq(s, i + 1, i + Len(prefix)) = prefix

\* str::starts_with
StartsWith(s, prefix) ==
    Len(s) >= Len(prefix) /\ SubSeq(s, 1, Len(prefix)) = prefix

\* the position after the first line terminator of the bytes (corpus.rs
\* 74-88): after the first "\n", or after the first "\r" and the "\n" that
\* may follow it; 0 when there is neither
SplitPos(content_bytes) ==
    LET ends == {i \in 1..Len(content_bytes) : content_bytes[i] \in {"\n", "\r"}}
    IN IF ends = {} THEN 0
       ELSE LET i == CHOOSE j \in ends : \A k \in ends : j <= k
            IN IF /\ content_bytes[i] = "\r"
                  /\ i + 1 <= Len(content_bytes)
                  /\ content_bytes[i + 1] = "\n"
               THEN i + 1
               ELSE i

\* parse_corpus_content: Ok((games, content)) or the error of
\* expand_game_aliases
parse_corpus_content(content_bytes) ==
    LET content_str == FromUtf8Lossy(content_bytes)
        lines == Lines(content_str)
    IN IF lines = <<>>
       THEN [ok |-> TRUE, games |-> <<>>, content |-> content_bytes]
       ELSE LET first_line == Trim(lines[1]) IN
            IF StartsWith(first_line, DirectivePrefix)
            THEN LET games_part ==
                         Trim(SubSeq(first_line, Len(DirectivePrefix) + 1,
                                     Len(first_line)))
                     games == expand_game_aliases(games_part)
                 IN IF ~games.ok
                    THEN games
                    ELSE [ok |-> TRUE,
                          games |-> games.games,
                          content |->
                              IF Len(lines) > 1
                              THEN SubSeq(content_bytes, SplitPos(content_bytes) + 1,
                                          Len(content_bytes))
                              ELSE <<>>]
            ELSE [ok |-> TRUE, games |-> <<>>, content |-> content_bytes]

(***************************************************************************)
(* SpecCorpus: parse_corpus_content applied to corpus file contents         *)
(***************************************************************************)
MaxTokens == 2

LegacyPrefix == <<"#"," ","@","g","a","m","e","s",":">>

TokenSamples ==
    {Eu4Str, Ck3Str, AllStr, <<"E","U","4">>, <<"A","L","L">>, <<"e","u","5">>}

\* token lists of up to MaxTokens tokens, and the lists of the code's tests
TokenLists ==
    UNION {[1..n -> TokenSamples] : n \in 0..MaxTokens}
    \cup {<<Eu4Str, AllStr, Eu4Str>>, <<AllStr, Vic3Str>>,
          <<Vic3Str, Hoi4Str, ImperatorStr, Ck3Str>>,
          <<StellarisStr, Eu4Str>>}

RECURSIVE JoinTokens(_, _)
JoinTokens(tokens, sep) ==
    IF tokens = <<>> THEN <<>>
    ELSE IF Len(tokens) = 1 THEN Head(tokens)
    ELSE Head(tokens) \o sep \o JoinTokens(Tail(tokens), sep)

\* how the tokens are laid out after the prefix: the gap after the colon,
\* the separator between tokens and what trails the last token (spaces,
\* tabs, or carriage returns that no line feed follows)
Layouts ==
    {[gap |-> <<" ">>, sep |-> <<" ">>, trail |-> <<>>],
     [gap |-> <<>>, sep |-> <<"\t", " ">>, trail |-> <<" ">>],
     [gap |-> <<" ">>, sep |-> <<"\r">>, trail |-> <<"\r", " ">>]}

CorpusSources ==
    [lead : {<<>>, <<" ">>, <<"x">>},
     prefix : {DirectivePrefix, LegacyPrefix},
     tokens : TokenLists,
     layout : Layouts,
     terminator : {<<>>, <<"\n">>, <<"\r", "\n">>, <<"\r">>},
     body : {<<>>, <<"a">>, <<"a", "\n", "b", "\r", "\n">>, <<BadByte, "\n">>,
             <<"\n", "a">>}]
    \cup
    \* files without any prefix, the empty file among them
    [lead : {<<>>},
     prefix : {<<>>},
     tokens : {<<>>},
     layout : {[gap |-> <<>>, sep |-> <<>>, trail |-> <<>>]},
     terminator : {<<>>, <<"\n">>, <<"\r", "\n">>, <<"\r">>},
     body : {<<>>, <<"a">>, <<"a", "\n", "b", "\r", "\n">>, <<BadByte, "\n">>,
             <<"\n", "a">>}]

\* the bytes of the file a source describes
SourceBytes(s) ==
    s.lead \o s.prefix \o s.layout.gap \o JoinTokens(s.tokens, s.layout.sep)
        \o s.layout.trail \o s.terminator \o s.body

NotParsed == [ok |-> "none"]

CorpusInit ==
    /\ source \in CorpusSources
    /\ parsed = NotParsed

ParseCorpusContent ==
    /\ parsed = NotParsed
    /\ parsed' = parse_corpus_content(SourceBytes(source))
    /\ UNCHANGED source

CorpusIdle ==
    /\ source = [lead |-> "none"]
    /\ parsed = NotParsed

(***************************************************************************)
(* The conformance run of one implementation (corpus.rs 112-142,            *)
(* executor.rs 31-85, can_parse.rs 19-173)                                  *)
(***************************************************************************)
\* a variant of Contains that finds everything
ContainsAnything(seq, x) == TRUE

Contains(seq, x) == \E i \in 1..Len(seq) : seq[i] = x

\* collect_relevant_corpus_files over the files of the corpus directory in
\* walk order
collect_relevant_corpus_files(games_to_test, entries) ==
    LET RECURSIVE Go(_, _)
        Go(i, all_corpus_files) ==
            IF i > Len(entries)
            THEN IF all_corpus_files = <<>>
                 THEN Err(<<"No corpus files found in", "corpus/game">>)
                 ELSE Ok(all_corpus_files)
            ELSE IF ~entries[i].is_file THEN Go(i + 1, all_corpus_files)
            ELSE LET corpus_file == parse_corpus_content(entries[i].bytes) IN
                 IF ~corpus_file.ok
                 THEN Err(<<"Failed to parse corpus file", entries[i].path>>)
                 ELSE IF \E k \in 1..Len(corpus_file.games) :
                            Contains(games_to_test, corpus_file.games[k])
                      THEN Go(i + 1,
                              Append(all_corpus_files,
                                     [path |-> entries[i].path,
                                      games |-> corpus_file.games,
                                      content |-> corpus_file.content]))
                      ELSE Go(i + 1, all_corpus_files)
    IN Go(1, <<>>)

ResolveBuildCommand(implementation) ==
    LET execution == implementation.config.execution
    IN IF execution.some /\ execution.value.build_command.some
       THEN execution.value.build_command
       ELSE get_project_config(implementation.config.project_type).build_command

\* what the operating system makes of the build command
BuildProcessOutcomes ==
    {[kind |-> "spawn_error"]}
        \cup {[kind |-> "exited", status |-> s] : s \in ExitStatuses}

\* ImplementationExecutor<Initial>::build: Ok(Built), Err, or the panic of
\* parts[0] on a command without tokens
build(implementation, process) ==
    LET build_command == ResolveBuildCommand(implementation) IN
    IF ~build_command.some THEN Ok("Built")
    ELSE LET split == ShellSplit(build_command.value) IN
         IF ~split.ok THEN Err(<<"Failed to parse build command">>)
         ELSE IF split.parts = <<>> THEN [kind |-> "panic"]
         ELSE IF process.kind = "spawn_error" THEN Err(<<"io error">>)
         ELSE IF ~StatusSuccess(process.status)
              THEN Err(<<"Build failed with exit code: ">>
                           \o StatusCodeDebug(process.status))
              ELSE Ok("Built")

\* build_implementation: build with the context "Failed to build <name>",
\* which is what the error's to_string() shows
build_implementation(implementation, process) ==
    LET built == build(implementation, process) IN
    IF built.kind = "Err"
    THEN Err(<<"Failed to build ", implementation.name>>)
    ELSE built

CanParseGameResultNew(game) ==
    [game |-> game, total_tests |-> 0, passed_tests |-> 0]

\* a variant of success_rate that reports 100 for a game without tests
success_rate_vacuous(result) ==
    IF result.total_tests > 0
    THEN [num |-> result.passed_tests * 100, den |-> result.total_tests]
    ELSE [num |-> 100, den |-> 1]

\* CanParseGameResult::success_rate, as the exact quotient num / den
success_rate(result) ==
    IF result.total_tests > 0
    THEN [num |-> result.passed_tests * 100, den |-> result.total_tests]
    ELSE [num |-> 0, den |-> 1]

\* the games of games_to_test that the file declares, in games_to_test's order
applicable_games(games_to_test, corpus_file) ==
    SelectSeq(games_to_test, LAMBDA game : Contains(corpus_file.games, game))

\* a variant of AddTotal that stops counting a game's tests once one passed
AddTotalUntilPassed(game_results, games) ==
    [g \in DOMAIN game_results |->
        IF Contains(games, g) /\ game_results[g].passed_tests = 0
        THEN [game_results[g] EXCEPT !.total_tests = @ + 1]
        ELSE game_results[g]]

RECURSIVE AddTotal(_, _)
AddTotal(game_results, games) ==
    IF games = <<>> THEN game_results
    ELSE AddTotal([game_results EXCEPT ![Head(games)].total_tests = @ + 1],
                  Tail(games))

RECURSIVE AddPassedAlways(_, _, _)
AddPassedAlways(game_results, games, result) ==
    IF games = <<>> THEN game_results
    ELSE AddPassedAlways(
             [game_results EXCEPT ![Head(games)].passed_tests = @ + 1],
             Tail(games), result)

\* the Success arm of the match on execute's result
RECURSIVE AddPassed(_, _, _)
AddPassed(game_results, games, result) ==
    IF result.kind # "Ok" \/ result.value.kind # "Success" \/ games = <<>>
    THEN game_results
    ELSE AddPassed([game_results EXCEPT ![Head(games)].passed_tests = @ + 1],
                   Tail(games), result)

FailureDetail(implementation, corpus_file, error_message) ==
    [implementation |-> implementation,
     corpus_file |-> corpus_file,
     error_message |-> error_message]

\* the Error and Err arms of the match on execute's result
AddFailure(failures, implementation, corpus_file_name, result) ==
    IF result.kind = "Err"
    THEN Append(failures,
                FailureDetail(implementation.name, corpus_file_name, result.error))
    ELSE IF result.value.kind = "Error"
         THEN Append(failures,
                     FailureDetail(implementation.name, corpus_file_name,
                                   result.value.error))
         ELSE failures

\* sort by Game's derived order
SortGames(games) ==
    [i \in 1..Cardinality(games) |->
        CHOOSE g \in games :
            Cardinality({h \in games : GameOrd(h) < GameOrd(g)}) = i - 1]

\* game_results.into_values() sorted by game
SortedResults(game_results) ==
    LET order == SortGames(DOMAIN game_results)
    IN [i \in 1..Len(order) |-> game_results[order[i]]]

\* process_implementation_can_parse's rows and the table of
\* run_can_parse_tests
ResultsTable(implementation, results, failures) ==
    LET all_results ==
            [i \in 1..Len(results) |->
                [implementation |-> implementation.name,
                 game |-> results[i].game,
                 success_rate |-> success_rate(results[i])]]
    IN [results |-> all_results,
        implementations |-> <<implementation.name>>,
        games |-> SortGames({all_results[i].game : i \in 1..Len(all_results)}),
        failures |-> failures]

(***************************************************************************)
(* Spec: run_can_parse_tests on one implementation and one corpus directory *)
(***************************************************************************)
MaxFiles == 2
MaxManifestGames == 2

\* files tagged eu4, "eu4 ck3" (CRLF) and all, a file without a directive,
\* a file whose directive names no game, and a subdirectory
CorpusEntries ==
    { [path |-> [dir |-> "corpus/game", file_name |-> "eu4.txt"],
       is_file |-> TRUE, bytes |-> DirectivePrefix \o <<" ">> \o Eu4Str \o <<"\n", "a">>],
      [path |-> [dir |-> "corpus/game", file_name |-> "both.txt"],
       is_file |-> TRUE, bytes |-> DirectivePrefix \o <<" ">> \o Eu4Str \o <<" ">> \o Ck3Str
                    \o <<"\r", "\n", "b">>],
      [path |-> [dir |-> "corpus/game", file_name |-> "all.txt"],
       is_file |-> TRUE, bytes |-> DirectivePrefix \o <<" ">> \o AllStr],
      [path |-> [dir |-> "corpus/game", file_name |-> "plain.txt"],
       is_file |-> TRUE, bytes |-> <<"c", "\n">>],
      [path |-> [dir |-> "corpus/game", file_name |-> "bad.txt"],
       is_file |-> TRUE,
       bytes |-> DirectivePrefix \o <<" ">> \o <<"e","u","5">> \o <<"\n">>],
      [path |-> [dir |-> "corpus/game", file_name |-> "sub"],
       is_file |-> FALSE, bytes |-> <<>>] }

\* a directory lists each file once
CorpusDirs ==
    {d \in StringsUpTo(CorpusEntries, MaxFiles) :
        \A i, j \in 1..Len(d) : i # j => d[i] # d[j]}

\* the implementation: its [execution] overrides, and tasks without
\* can-parse or with any list of games (the manifest's array, as written)
Targets ==
    { [name |-> "impl-a", path |-> "impls/impl-a",
       config |-> [project_type |-> "Rust", execution |-> ex, tasks |-> tk]] :
        ex \in {None,
                Some([build_command |-> Some(CmdEmpty), run_command |-> None]),
                Some([build_command |-> Some(CmdUnterminated), run_command |-> None]),
                Some([build_command |-> None, run_command |-> Some(CmdEmpty)])},
        tk \in {NoTasks}
                  \cup {[t \in {"CanParse"} |-> g] :
                          g \in StringsUpTo({"Eu4", "Ck3"}, MaxManifestGames)} }

NotRun ==
    [pc |-> "start", games_to_test |-> <<>>, all_corpus_files |-> <<>>,
     game_results |-> <<>>, process |-> [kind |-> "none"], built |-> NoResult,
     next |-> 1,
     executions |-> <<>>, failures |-> <<>>, result |-> NoResult]

Init ==
    /\ target \in Targets
    /\ corpus_dir \in CorpusDirs
    /\ run = NotRun

\* can_parse.rs 88-95; an error of the corpus walk is the run's error
Collect ==
    /\ run.pc = "start"
    /\ LET games_to_test == games_for_task(target, "CanParse")
           collected == collect_relevant_corpus_files(games_to_test, corpus_dir)
       IN run' =
            IF collected.kind = "Err"
            THEN [run EXCEPT !.pc = "done",
                             !.games_to_test = games_to_test,
                             !.result = collected]
            ELSE [run EXCEPT !.pc = "build",
                             !.games_to_test = games_to_test,
                             !.all_corpus_files = collected.value,
                             !.game_results =
                                 [g \in {games_to_test[i] : i \in 1..Len(games_to_test)}
                                     |-> CanParseGameResultNew(g)]]
    /\ UNCHANGED <<target, corpus_dir>>

\* can_parse.rs 97-98: the build succeeded and the loop over the files starts
BuildSucceeds ==
    /\ run.pc = "build"
    /\ \E process \in BuildProcessOutcomes :
         LET built == build_implementation(target, process) IN
         /\ built.kind = "Ok"
         /\ run' = [run EXCEPT !.pc = "files", !.process = process, !.built = built]
    /\ UNCHANGED <<target, corpus_dir>>

\* a variant of BuildFails that goes on to the files
BuildFailsContinue ==
    /\ run.pc = "build"
    /\ \E process \in BuildProcessOutcomes :
         LET built == build_implementation(target, process) IN
         /\ built.kind = "Err"
         /\ run' = [run EXCEPT
                        !.pc = "files",
                        !.process = process,
                        !.built = built,
                        !.failures =
                            Append(@, FailureDetail(target.name, "build", built.error))]
    /\ UNCHANGED <<target, corpus_dir>>

\* a variant of BuildFails that returns the build's error
BuildFailsAbort ==
    /\ run.pc = "build"
    /\ \E process \in BuildProcessOutcomes :
         LET built == build_implementation(target, process) IN
         /\ built.kind = "Err"
         /\ run' = [run EXCEPT !.pc = "done", !.process = process,
                                !.built = built, !.result = built]
    /\ UNCHANGED <<target, corpus_dir>>

\* can_parse.rs 99-106: the build failed; the failure is recorded, the
\* implementation has no results and the run returns its table
BuildFails ==
    /\ run.pc = "build"
    /\ \E process \in BuildProcessOutcomes :
         LET built == build_implementation(target, process)
             failures ==
                 Append(run.failures,
                        FailureDetail(target.name, "build", built.error))
         IN /\ built.kind = "Err"
            /\ run' = [run EXCEPT
                           !.pc = "done",
                           !.process = process,
                           !.built = built,
                           !.failures = failures,
                           !.result = Ok(ResultsTable(target, <<>>, failures))]
    /\ UNCHANGED <<target, corpus_dir>>

\* executor.rs 62: parts[0] of a build command without tokens
BuildPanics ==
    /\ run.pc = "build"
    /\ \E process \in BuildProcessOutcomes :
         LET built == build_implementation(target, process) IN
         /\ built.kind = "panic"
         /\ run' = [run EXCEPT !.pc = "panicked", !.process = process, !.built = built]
    /\ UNCHANGED <<target, corpus_dir>>

\* can_parse.rs 109-149: one iteration of the loop over the corpus files
ExecuteFile ==
    /\ run.pc = "files"
    /\ run.next <= Len(run.all_corpus_files)
    /\ LET corpus_file == run.all_corpus_files[run.next]
           games == applicable_games(run.games_to_test, corpus_file)
           command == ExecuteCommand(target, "CanParse", games)
       IN IF games = <<>>
          THEN run' = [run EXCEPT !.next = @ + 1]
          ELSE \E result \in
                    (IF command.ok
                     THEN {Ok(Success(<<"7">>)), Ok(Error(<<"parse error">>)),
                           Err(<<"io error">>)}
                     ELSE {Err(<<command.error>>)}) :
                 run' = [run EXCEPT
                    !.next = @ + 1,
                    !.game_results =
                        AddPassed(AddTotal(@, games), games, result),
                    !.failures =
                        AddFailure(@, target, corpus_file.path.file_name, result),
                    !.executions =
                        Append(@, [path |-> corpus_file.path,
                                   content |-> corpus_file.content,
                                   games |-> games,
                                   executor |-> run.built,
                                   result |-> result])]
    /\ UNCHANGED <<target, corpus_dir>>

\* can_parse.rs 151-153, 164-170 and 67-81: the sorted results and the table
Finish ==
    /\ run.pc = "files"
    /\ run.next > Len(run.all_corpus_files)
    /\ run' = [run EXCEPT
                   !.pc = "done",
                   !.result =
                       Ok(ResultsTable(target, SortedResults(run.game_results),
                                       run.failures))]
    /\ UNCHANGED <<target, corpus_dir>>

ConformanceIdle ==
    /\ target = [name |-> "none"]
    /\ corpus_dir = <<>>
    /\ run = [pc |-> "idle"]


(***************************************************************************)
(* Claims about the conformance run (Spec)                                  *)
(***************************************************************************)
BuildCommandRuns ==
    LET split == ShellSplit(ResolveBuildCommand(target).value)
    IN split.ok /\ split.parts # <<>>

\* C1: a worker is only ever executed on the Built executor that a successful
\* build returned: every execution used such an executor, the loop over the
\* files is only entered with one, a build command that ran and exited with
\* a nonzero status gives a build error, a failed build is the end of the
\* run with no execution, and a Built executor stays Built.
C1_ExecuteOnlyAfterSuccessfulBuild ==
    /\ [](/\ \A i \in 1..Len(run.executions) :
                run.executions[i].executor = Ok("Built")
          /\ run.pc = "files" => run.built = Ok("Built")
          /\ ( /\ run.process.kind = "exited"
               /\ ~StatusSuccess(run.process.status)
               /\ BuildCommandRuns ) => run.built.kind = "Err"
          /\ run.built.kind = "Err" => run.executions = <<>> /\ run.pc = "done")
    /\ [][/\ run.built = Ok("Built") => run'.built = Ok("Built")
          /\ run.built.kind = "Err" => run'.built = run.built]_vars

C1_Witness ==
    /\ run.pc = "done"
    /\ run.built = Ok("Built")
    /\ Len(run.executions) = 2
    /\ run.process.status.code = "0"

ExecutionFailed(e) ==
    IF e.result.kind = "Err" THEN TRUE ELSE e.result.value.kind = "Error"

ExecutionMessage(e) ==
    IF e.result.kind = "Err" THEN e.result.error ELSE e.result.value.error

ExecutionIndices == 1..Len(run.executions)

\* what each file of the corpus directory declares
DeclaredGames(file_name) ==
    CASE file_name = "eu4.txt" -> {"Eu4"}
      [] file_name = "both.txt" -> {"Eu4", "Ck3"}
      [] file_name = "all.txt" -> Game
      [] OTHER -> {}

UnderTest == {run.games_to_test[i] : i \in 1..Len(run.games_to_test)}

FilesDeclaring(g) ==
    {i \in 1..Len(corpus_dir) : g \in DeclaredGames(corpus_dir[i].path.file_name)}

\* C7: after the run of an implementation whose build succeeded, every
\* relevant file was executed exactly once, tagged with exactly the games
\* under test that it declares; total(g) is the number of files declaring g
\* and passed(g) the number of those whose execution returned Success.
C7_ConformanceCounting ==
    (run.pc = "done" /\ run.built.kind = "Ok") =>
      /\ \A i \in 1..Len(corpus_dir) :
            LET tags == DeclaredGames(corpus_dir[i].path.file_name) \cap UnderTest
                runs == {k \in ExecutionIndices :
                            run.executions[k].path = corpus_dir[i].path}
            IN /\ Cardinality(runs) = (IF tags = {} THEN 0 ELSE 1)
               /\ \A k \in runs :
                    LET games == run.executions[k].games
                    IN /\ {games[j] : j \in 1..Len(games)} = tags
                       /\ Len(games) = Cardinality(tags)
      /\ \A g \in UnderTest :
            /\ run.game_results[g].total_tests = Cardinality(FilesDeclaring(g))
            /\ run.game_results[g].passed_tests =
                 Cardinality({i \in FilesDeclaring(g) :
                    \E k \in ExecutionIndices :
                        /\ run.executions[k].path = corpus_dir[i].path
                        /\ ~ExecutionFailed(run.executions[k])})
      /\ ( /\ run.games_to_test = <<"Eu4", "Ck3">>
           /\ Len(run.executions) = 2
           /\ \E k \in ExecutionIndices :
                /\ run.executions[k].path.file_name = "both.txt"
                /\ ~ExecutionFailed(run.executions[k])
           /\ \E k \in ExecutionIndices :
                /\ run.executions[k].path.file_name = "eu4.txt"
                /\ ExecutionFailed(run.executions[k]) )
         => /\ run.game_results["Ck3"].total_tests = 1
            /\ run.game_results["Ck3"].passed_tests = 1
            /\ run.game_results["Eu4"].total_tests = 2
            /\ run.game_results["Eu4"].passed_tests = 1

\* C8: with a Built executor, the failure entries are exactly one per
\* execution that returned Error or a harness-level error, in order, each
\* carrying the implementation name, the file name and the message; such a
\* file counts toward total but not passed for each of its games, every file
\* is processed whatever the earlier outcomes were, and 0 <= passed <= total
\* for every game in every state.
C8_FailureRecording ==
    /\ run.built.kind = "Ok" =>
         LET failed == SelectSeq(run.executions, ExecutionFailed)
         IN /\ Len(run.failures) = Len(failed)
            /\ \A i \in 1..Len(failed) :
                 run.failures[i] =
                    [implementation |-> target.name,
                     corpus_file |-> failed[i].path.file_name,
                     error_message |-> ExecutionMessage(failed[i])]
            /\ run.pc = "files" => run.next = Len(run.executions) + 1
            /\ run.pc = "done" =>
                 /\ Len(run.executions) = Len(run.all_corpus_files)
                 /\ \A k \in ExecutionIndices :
                      run.executions[k].path = run.all_corpus_files[k].path
    /\ \A g \in DOMAIN run.game_results :
         LET r == run.game_results[g]
             ran == {k \in ExecutionIndices : Contains(run.executions[k].games, g)}
             bad == {k \in ran : ExecutionFailed(run.executions[k])}
         IN /\ 0 <= r.passed_tests
            /\ r.passed_tests <= r.total_tests
            /\ r.total_tests >= Cardinality(ran)
            /\ r.total_tests - r.passed_tests >= Cardinality(bad)
            /\ bad = {} => r.passed_tests = r.total_tests

C8_Witness ==
    /\ run.pc = "done"
    /\ Len(run.executions) = 2
    /\ run.executions[1].result = Ok(Error(<<"parse error">>))
    /\ run.executions[2].result = Err(<<"io error">>)
    /\ Len(run.failures) = 2
    /\ Len(run.executions[1].games) = 2

\* C9: when the build fails, no worker is executed, the implementation has
\* no per-game result, exactly one failure entry is recorded and its file
\* name is "build", and the run returns its table rather than an error.
C9_BuildFailureShortCircuit ==
    run.built.kind = "Err" =>
      /\ run.executions = <<>>
      /\ run.pc = "done"
      /\ run.result.kind = "Ok"
      /\ run.result.value.results = <<>>
      /\ run.result.value.games = <<>>
      /\ run.result.value.failures = run.failures
      /\ Len(run.failures) = 1
      /\ run.failures[1].implementation = target.name
      /\ run.failures[1].corpus_file = "build"
      /\ run.failures[1].error_message = <<"Failed to build ", target.name>>

C9_Witness ==
    /\ run.built.kind = "Err"
    /\ run.process.kind = "exited"
    /\ run.process.status.code = "1"
    /\ BuildCommandRuns
    /\ run.result.kind = "Ok"
    /\ Len(run.all_corpus_files) = 2

\* the regular files of the directory that declare a game under test
RelevantFiles ==
    SelectSeq(corpus_dir,
              LAMBDA e : /\ e.is_file
                         /\ DeclaredGames(e.path.file_name) \cap UnderTest # {})

\* every file of the directory has a first line that parse_corpus_content
\* accepts
EveryFileParses ==
    \A i \in 1..Len(corpus_dir) : corpus_dir[i].path.file_name # "bad.txt"

RateLeq(a, b) == a.num * b.den <= b.num * a.den

\* C16: in the table of a finished run, the rate of every row is 0 when its
\* game has no tests, 100 when all of its tests passed, passed / total x 100
\* in every case with tests, between 0 and 100, and not smaller than the
\* rate of the same total with fewer passed nor greater than with more
C16_SuccessRate ==
    (run.pc = "done" /\ run.result.kind = "Ok") =>
        \A i \in 1..Len(run.result.value.results) :
            LET row == run.result.value.results[i]
                rate == row.success_rate
                counters == run.game_results[row.game]
                total == counters.total_tests
                passed == counters.passed_tests
            IN /\ 0 <= passed /\ passed <= total
               /\ rate.den > 0
               /\ total = 0 => rate.num = 0
               /\ (passed = total /\ total > 0) => rate.num = 100 * rate.den
               /\ total > 0 => rate.num * total = passed * 100 * rate.den
               /\ 0 <= rate.num /\ rate.num <= 100 * rate.den
               /\ \A fewer \in 0..passed :
                    RateLeq(success_rate([counters EXCEPT !.passed_tests = fewer]),
                            rate)
               /\ \A more \in passed..total :
                    RateLeq(rate,
                            success_rate([counters EXCEPT !.passed_tests = more]))

\* a table with a game of which one test out of two passed: its rate is 50
C16_Witness ==
    /\ run.pc = "done"
    /\ run.result.kind = "Ok"
    /\ \E i \in 1..Len(run.result.value.results) :
         LET row == run.result.value.results[i] IN
         /\ run.game_results[row.game].total_tests = 2
         /\ run.game_results[row.game].passed_tests = 1
         /\ row.success_rate.num = 50 * row.success_rate.den

\* the loop of can_parse.rs 109-149 over the files that were executed, with
\* the outcomes they had, taken in the order given
RECURSIVE Replay(_, _)
Replay(game_results, executions) ==
    IF executions = <<>> THEN game_results
    ELSE Replay(AddPassed(AddTotal(game_results, Head(executions).games),
                          Head(executions).games, Head(executions).result),
                Tail(executions))

\* the orders in which n files can be processed
ProcessingOrders(n) ==
    {p \in [1..n -> 1..n] : \A i, j \in 1..n : i # j => p[i] # p[j]}

\* C24: with the relevant files and their outcomes fixed, every processing
\* order gives each game the same total and passed counts, hence the same
\* success rate, and the same rows in the canonical order of the games
C24_OrderInvariance ==
    run.pc \in {"files", "done"} =>
        LET fresh == [g \in DOMAIN run.game_results |-> CanParseGameResultNew(g)]
            n == Len(run.executions)
            rows == SortedResults(run.game_results)
        IN /\ Replay(fresh, run.executions) = run.game_results
           /\ \A p \in ProcessingOrders(n) :
                LET other == Replay(fresh, [i \in 1..n |-> run.executions[p[i]]])
                IN /\ other = run.game_results
                   /\ SortedResults(other) = rows
                   /\ \A g \in DOMAIN other :
                        success_rate(other[g]) = success_rate(run.game_results[g])
           /\ \A i, j \in 1..Len(rows) :
                i < j => GameOrd(rows[i].game) < GameOrd(rows[j].game)
           /\ (run.pc = "done" /\ run.result.kind = "Ok" /\ run.built.kind = "Ok") =>
                run.result.value.results =
                    [i \in 1..Len(rows) |->
                        [implementation |-> target.name,
                         game |-> rows[i].game,
                         success_rate |-> success_rate(rows[i])]]

\* two files with different applicable games were run, the first passed and
\* the second failed, and the table has a row for each of two games
C24_Witness ==
    /\ run.pc = "done"
    /\ run.result.kind = "Ok"
    /\ Len(run.executions) = 2
    /\ run.executions[1].games # run.executions[2].games
    /\ run.executions[1].result = Ok(Success(<<"7">>))
    /\ run.executions[2].result.kind = "Err"
    /\ Len(run.result.value.results) = 2
    /\ run.result.value.results[1].success_rate
         # run.result.value.results[2].success_rate

(***************************************************************************)
(* Claims about the directive (SpecCorpus)                                  *)
(***************************************************************************)
SameIgnoringCase(a, b) ==
    /\ Len(a) = Len(b)
    /\ \A i \in 1..Len(a) :
         \/ a[i] = b[i]
         \/ \E k \in 1..26 : {a[i], b[i]} = {UpperCase[k], LowerCase[k]}

IsTag(token) == \E g \in Game : SameIgnoringCase(token, GameAsStr(g))
TagGame(token) == CHOOSE g \in Game : SameIgnoringCase(token, GameAsStr(g))

RECURSIVE Declared(_)
Declared(tokens) ==
    IF tokens = <<>> THEN <<>>
    ELSE (IF Head(tokens) = AllStr
          THEN <<"Eu4", "Ck3", "Hoi4", "Vic3", "Imperator", "Stellaris">>
          ELSE <<TagGame(Head(tokens))>>) \o Declared(Tail(tokens))

FirstIndex(seq, x) ==
    CHOOSE i \in 1..Len(seq) : seq[i] = x /\ \A j \in 1..(i - 1) : seq[j] # x

\* the file starts with the prefix, its tokens are tags or "all", and the
\* line ends after them
DirectiveFirstLine ==
    LET rest == source.terminator \o source.body IN
    /\ source.lead = <<>>
    /\ source.prefix = DirectivePrefix
    /\ \A i \in 1..Len(source.tokens) :
         source.tokens[i] = AllStr \/ IsTag(source.tokens[i])
    /\ \/ rest \in {<<>>, <<"\r">>}
       \/ rest[1] = "\n"
       \/ Len(rest) >= 2 /\ rest[1] = "\r" /\ rest[2] = "\n"

\* C10: for a file whose first line is the prefix followed by game tags (in
\* any case) or "all", parsing succeeds and the games are those the tokens
\* declare, "all" standing for eu4 ck3 hoi4 vic3 imperator stellaris, each
\* game once, in the order of first appearance.
C10_DirectiveGameSet ==
    (parsed # NotParsed /\ DirectiveFirstLine) =>
      /\ parsed.ok = TRUE
      /\ LET declared == Declared(source.tokens)
             games == parsed.games
         IN /\ {games[i] : i \in 1..Len(games)}
                  = {declared[i] : i \in 1..Len(declared)}
            /\ \A i, j \in 1..Len(games) :
                 i < j => /\ games[i] # games[j]
                          /\ FirstIndex(declared, games[i])
                                < FirstIndex(declared, games[j])
      /\ source.tokens = <<Eu4Str, AllStr, Eu4Str>> =>
            parsed.games = <<"Eu4", "Ck3", "Hoi4", "Vic3", "Imperator", "Stellaris">>
      /\ source.tokens = <<AllStr>> =>
            parsed.games = <<"Eu4", "Ck3", "Hoi4", "Vic3", "Imperator", "Stellaris">>
      /\ source.tokens = << <<"E","U","4">>, Ck3Str >> =>
            parsed.games = <<"Eu4", "Ck3">>
      /\ source.tokens = <<>> => parsed.games = <<>>

C10_Witness ==
    /\ parsed # NotParsed
    /\ DirectiveFirstLine
    /\ source.tokens = <<Eu4Str, AllStr, Eu4Str>>
    /\ source.terminator = <<"\r", "\n">>
    /\ parsed.ok = TRUE
    /\ parsed.games = <<"Eu4", "Ck3", "Hoi4", "Vic3", "Imperator", "Stellaris">>

\* the bytes that follow the first line and its terminator
AfterFirstLine ==
    LET rest == source.terminator \o source.body IN
    IF rest = <<>> THEN <<>>
    ELSE IF rest[1] = "\n" THEN Tail(rest)
    ELSE IF Len(rest) >= 2 /\ rest[1] = "\r" /\ rest[2] = "\n"
         THEN SubSeq(rest, 3, Len(rest))
         ELSE <<>>

\* C11: for a file whose first line is a valid directive, the content
\* returned is the bytes after the first line and its "\n" or "\r\n", byte
\* for byte, and empty for a file that is only the directive.
C11_ByteExactStripping ==
    (parsed # NotParsed /\ DirectiveFirstLine) =>
        /\ parsed.ok = TRUE
        /\ parsed.content = AfterFirstLine

\* the directory that holds the parsed file and nothing else
OnlyThisFile ==
    << [path |-> [dir |-> "corpus/game", file_name |-> "this.txt"],
        is_file |-> TRUE, bytes |-> SourceBytes(source)] >>

\* no list of games under test makes the file part of a run
NeverCollected ==
    \A games_to_test \in StringsUpTo({"Eu4", "Ck3", "Vic3"}, 2) :
        collect_relevant_corpus_files(games_to_test, OnlyThisFile)
            = Err(<<"No corpus files found in", "corpus/game">>)

NoDirectiveResult ==
    /\ parsed.ok = TRUE
    /\ parsed.games = <<>>
    /\ parsed.content = SourceBytes(source)
    /\ NeverCollected

\* C12 as stated: when the first line does not begin with the exact prefix
\* (anything at all precedes it, or it is spelled differently, or the file is
\* empty), the result is success with no games and the input as content, and
\* the file is never part of a conformance run.
C12_NoDirective ==
    (parsed # NotParsed /\ ~(source.lead = <<>> /\ source.prefix = DirectivePrefix))
        => NoDirectiveResult

\* C12, amended: the same for a first line that, once the whitespace around
\* it is removed, does not begin with the prefix; whitespace before the
\* prefix does not hide the directive.
C12_NoDirectiveAfterTrim ==
    /\ ( /\ parsed # NotParsed
         /\ ~(source.lead \in {<<>>, <<" ">>} /\ source.prefix = DirectivePrefix) )
        => NoDirectiveResult
    /\ ( /\ parsed # NotParsed
         /\ source.lead = <<" ">>
         /\ source.prefix = DirectivePrefix
         /\ source.tokens = <<Eu4Str>>
         /\ source.layout.sep = <<" ">>
         /\ source.terminator = <<"\n">> )
        => /\ parsed.ok = TRUE
           /\ parsed.games = <<"Eu4">>
           /\ parsed.content = source.body

C12_Witness ==
    /\ parsed # NotParsed
    /\ source.prefix = LegacyPrefix
    /\ source.lead = <<>>
    /\ source.tokens = <<Eu4Str, Ck3Str>>
    /\ source.body = <<BadByte, "\n">>
    /\ parsed.ok = TRUE
    /\ parsed.games = <<>>

\* a directory with one file tagged eu4
ValidFile ==
    << [path |-> [dir |-> "corpus/game", file_name |-> "eu4.txt"],
        is_file |-> TRUE, bytes |-> DirectivePrefix \o <<" ">> \o Eu4Str \o <<"\n", "a">>] >>

\* the tokens are the line's tokens: the line ends after them
LineEndsAfterTokens ==
    LET rest == source.terminator \o source.body IN
    \/ rest \in {<<>>, <<"\r">>}
    \/ rest[1] = "\n"
    \/ Len(rest) >= 2 /\ rest[1] = "\r" /\ rest[2] = "\n"

UnknownTokens ==
    {i \in 1..Len(source.tokens) :
        source.tokens[i] # AllStr /\ ~IsTag(source.tokens[i])}

\* C13: when the first line has the prefix and a token is neither "all" nor
\* a game tag, the result is the error naming the first such token, with no
\* game list and no content, and collecting a directory that holds the file
\* fails as a whole, whatever else the directory holds.
C13_UnrecognizedTagIsError ==
    ( /\ parsed # NotParsed
      /\ source.lead = <<>>
      /\ source.prefix = DirectivePrefix
      /\ LineEndsAfterTokens
      /\ UnknownTokens # {} )
    => /\ parsed.ok = FALSE
       /\ DOMAIN parsed = {"ok", "unrecognized"}
       /\ parsed.unrecognized =
            source.tokens[CHOOSE i \in UnknownTokens : \A j \in UnknownTokens : i <= j]
       /\ \A entries \in {OnlyThisFile, ValidFile \o OnlyThisFile,
                          OnlyThisFile \o ValidFile} :
            collect_relevant_corpus_files(<<"Eu4">>, entries)
                = Err(<<"Failed to parse corpus file", OnlyThisFile[1].path>>)

C13_Witness ==
    /\ parsed # NotParsed
    /\ source.lead = <<>>
    /\ source.prefix = DirectivePrefix
    /\ source.tokens = <<Eu4Str, <<"e","u","5">>>>
    /\ source.terminator = <<"\n">>
    /\ parsed.ok = FALSE
    /\ parsed.unrecognized = <<"e","u","5">>

(***************************************************************************)
(* Loading manifests and building every implementation                      *)
(* (config.rs 55-83, implementation.rs 15-64, build.rs 12-50)               *)
(***************************************************************************)
\* ImplementationConfig::load_from_file on the manifest of a directory: the
\* file is missing, or is not TOML, or is a TOML document that serde
\* deserializes field by field.  A document is given by its keys: name and
\* project-type (a string, or absent), the optional [execution] table, and
\* [tasks], a list of (key, games array) tables.
load_from_file(file) ==
    LET doc == file.toml
        \* derive(Deserialize) for ProjectType, rename_all = "lowercase"
        project_types ==
            { <<"Rust", <<"r","u","s","t">>>>,
              <<"Gradle", <<"g","r","a","d","l","e">>>>,
              <<"Nodejs", <<"n","o","d","e","j","s">>>>,
              <<"Go", <<"g","o">>>>,
              <<"Make", Make>> }
        project_type ==
            {p \in project_types : doc.project_type = Some(p[2])}
        \* derive(Deserialize) for TaskType, rename_all = "kebab-case"
        task_of(key) == {t \in TaskType : TaskAsStr(t) = key}
        \* derive(Deserialize) for Game, rename_all = "lowercase"
        game_of(tag) == {g \in Game : GameAsStr(g) = tag}
        tables == doc.tasks.value
        games_ok(table) ==
            /\ table.games.some
            /\ \A i \in 1..Len(table.games.value) :
                   game_of(table.games.value[i]) # {}
        games(table) ==
            [i \in 1..Len(table.games.value) |->
                CHOOSE g \in game_of(table.games.value[i]) : TRUE]
    IN IF file.kind = "missing" THEN Err(<<"No such file or directory">>)
       ELSE IF ~doc.syntax_ok THEN Err(<<"TOML parse error">>)
       ELSE IF ~doc.name.some THEN Err(<<"missing field name">>)
       ELSE IF ~doc.project_type.some
            THEN Err(<<"missing field project-type">>)
       ELSE IF project_type = {} THEN Err(<<"unknown variant">>)
       ELSE IF ~doc.tasks.some THEN Err(<<"missing field tasks">>)
       ELSE IF \E i \in 1..Len(tables) :
                   task_of(tables[i].key) = {} \/ ~games_ok(tables[i])
            THEN Err(<<"TOML parse error">>)
       ELSE Ok([name |-> doc.name.value,
                project_type |-> (CHOOSE p \in project_type : TRUE)[1],
                execution |-> doc.execution,
                tasks |->
                    [t \in UNION {task_of(tables[i].key) : i \in 1..Len(tables)} |->
                        games(tables[CHOOSE i \in 1..Len(tables) :
                                        t \in task_of(tables[i].key)])]])

\* a variant of load_from_path that loads a default manifest on an error
load_from_path_default(entry) ==
    LET config == load_from_file(entry.manifest) IN
    Ok([name |-> entry.name, path |-> entry.name,
        config |-> IF config.kind = "Err"
                   THEN [name |-> <<>>, project_type |-> "Make",
                         execution |-> None, tasks |-> NoTasks]
                   ELSE config.value])

\* Implementation::load_from_path: the error carries the context
\* "Failed to load config from <path>/babblewitz.config.toml"
load_from_path(entry) ==
    LET config == load_from_file(entry.manifest) IN
    IF config.kind = "Err"
    THEN Err(<<"Failed to load config from", entry.name>>)
    ELSE Ok([name |-> entry.name, path |-> entry.name, config |-> config.value])

\* the directory names of the model, in String::cmp order
ImplNames == <<"impl-a", "impl-b", "impl-c">>

\* implementations.sort_by(|a, b| a.name.cmp(&b.name))
SortByName(implementations) ==
    LET ord(name) == CHOOSE k \in 1..Len(ImplNames) : ImplNames[k] = name
        names == {implementations[i].name : i \in 1..Len(implementations)}
    IN [i \in 1..Len(implementations) |->
          CHOOSE x \in {implementations[j] : j \in 1..Len(implementations)} :
              Cardinality({n \in names : ord(n) < ord(x.name)}) = i - 1]

\* find_all_implementations: every directory of impls/ is loaded, in
\* read_dir order, up to the first that fails; loads are the results of
\* load_from_path in that order
find_all_implementations(entries) ==
    LET RECURSIVE Go(_, _, _)
        Go(i, implementations, loads) ==
            IF i > Len(entries)
            THEN [loads |-> loads,
                  result |->
                    IF implementations = <<>>
                    THEN Err(<<"No valid implementations found">>)
                    ELSE Ok(SortByName(implementations))]
            ELSE IF ~entries[i].is_dir THEN Go(i + 1, implementations, loads)
            ELSE LET implementation == load_from_path(entries[i]) IN
                 IF implementation.kind = "Err"
                 THEN [loads |-> Append(loads, implementation),
                       result |->
                         Err(<<"Failed to load implementation from",
                               entries[i].name>>)]
                 ELSE Go(i + 1, Append(implementations, implementation.value),
                         Append(loads, implementation))
    IN Go(1, <<>>, <<>>)

(***************************************************************************)
(* SpecBuildAll: build_all_implementations on an impls/ directory           *)
(***************************************************************************)
MaxImpls == 2
MaxTags == 2

\* manifests: none, one that is not TOML, documents with every key and a
\* [tasks.can-parse] array of recognized ("eu4") and unrecognized ("eu5")
\* tags, documents with an empty build-command, with the make project type,
\* with the tags "EU4" or "all", and documents that lack a key, name an
\* unknown project type or task, or lack the array
Manifests ==
    LET document(name, project_type, execution, tasks) ==
            [kind |-> "file",
             toml |-> [syntax_ok |-> TRUE, name |-> name,
                       project_type |-> project_type,
                       execution |-> execution, tasks |-> tasks]]
        name == Some(<<"x">>)
        rust == Some(<<"r","u","s","t">>)
        can_parse(games) == Some(<<[key |-> CanParseStr, games |-> games]>>)
        listed == can_parse(Some(<<Eu4Str>>))
    IN {[kind |-> "missing"], [kind |-> "file", toml |-> [syntax_ok |-> FALSE]]}
        \cup {document(name, rust, None, can_parse(Some(tags))) :
                tags \in StringsUpTo({Eu4Str, <<"e","u","5">>}, MaxTags)}
        \cup {document(name, rust,
                       Some([build_command |-> Some(CmdEmpty),
                             run_command |-> None]), listed),
              document(name, Some(Make), None, listed),
              document(name, rust, None, can_parse(Some(<<<<"E","U","4">>>>))),
              document(None, rust, None, listed),
              document(name, None, None, listed),
              document(name, Some(<<"c">>), None, listed),
              document(name, rust, None, None),
              document(name, rust, None, Some(<<>>)),
              document(name, rust, None, can_parse(None)),
              document(name, rust, None,
                       Some(<<[key |-> <<"x">>, games |-> Some(<<Eu4Str>>)]>>)),
              document(name, rust, None,
                       Some(<<[key |-> DeserializationStr,
                               games |-> Some(<<Eu4Str>>)],
                              [key |-> CanParseStr,
                               games |-> Some(<<<<"a","l","l">>>>)]>>))}

\* impls/ holds directories with distinct names, and may hold a plain file
ImplsDirs ==
    LET entries ==
            {[name |-> ImplNames[k], is_dir |-> TRUE, manifest |-> m] :
                k \in 1..Len(ImplNames), m \in Manifests}
                \cup {[name |-> "README.md", is_dir |-> FALSE,
                       manifest |-> [kind |-> "missing"]]}
    IN {d \in StringsUpTo(entries, MaxImpls) :
            \A i, j \in 1..Len(d) : i # j => d[i].name # d[j].name}

NotBuilding ==
    [pc |-> "start", loads |-> <<>>, implementations |-> <<>>, next |-> 1,
     attempts |-> <<>>, success_count |-> 0, failed_implementations |-> <<>>,
     result |-> NoResult]

BuildAllInit ==
    /\ impls_dir \in ImplsDirs
    /\ build_all = NotBuilding

\* build.rs 13: find_all_implementations()?
FindAll ==
    /\ build_all.pc = "start"
    /\ LET found == find_all_implementations(impls_dir) IN
       build_all' =
           IF found.result.kind = "Err"
           THEN [build_all EXCEPT !.pc = "done", !.loads = found.loads,
                                  !.result = found.result]
           ELSE [build_all EXCEPT !.pc = "loop", !.loads = found.loads,
                                  !.implementations = found.result.value]
    /\ UNCHANGED impls_dir

\* build.rs 20-32: one iteration of the loop; the build ends in Ok or Err
BuildOne ==
    /\ build_all.pc = "loop"
    /\ build_all.next <= Len(build_all.implementations)
    /\ \E process \in BuildProcessOutcomes :
         LET implementation == build_all.implementations[build_all.next]
             built == build_implementation(implementation, process)
         IN /\ built.kind # "panic"
            /\ build_all' =
                 [build_all EXCEPT
                    !.next = @ + 1,
                    !.attempts = Append(@, implementation.name),
                    !.success_count = IF built.kind = "Ok" THEN @ + 1 ELSE @,
                    !.failed_implementations =
                        IF built.kind = "Err"
                        THEN Append(@, implementation.name) ELSE @]
    /\ UNCHANGED impls_dir

\* executor.rs 62: parts[0] of a build command without tokens panics, and
\* the panic ends the process
BuildOnePanics ==
    /\ build_all.pc = "loop"
    /\ build_all.next <= Len(build_all.implementations)
    /\ \E process \in BuildProcessOutcomes :
         LET implementation == build_all.implementations[build_all.next]
         IN /\ build_implementation(implementation, process).kind = "panic"
            /\ build_all' =
                 [build_all EXCEPT
                    !.pc = "panicked",
                    !.attempts = Append(@, implementation.name)]
    /\ UNCHANGED impls_dir

\* build.rs 34-49: the summary and the command's result
BuildSummary ==
    /\ build_all.pc = "loop"
    /\ build_all.next > Len(build_all.implementations)
    /\ build_all' =
         [build_all EXCEPT
            !.pc = "done",
            !.result =
                IF build_all.failed_implementations # <<>>
                THEN Err(<<Len(build_all.failed_implementations),
                           " impl(s) failed to build">>)
                ELSE Ok("()")]
    /\ UNCHANGED impls_dir

BuildAllIdle ==
    /\ impls_dir = <<>>
    /\ build_all = [pc |-> "idle"]

(***************************************************************************)
(* Claims about manifests and build-all (SpecBuildAll)                      *)
(***************************************************************************)
\* the directories of impls/, in the order find_all_implementations meets them
ImplDirectories == SelectSeq(impls_dir, LAMBDA e : e.is_dir)

ManifestMissing(e) == e.manifest.kind = "missing"

\* the schema of the manifest: TOML with a name, a project-type out of the
\* five known, and tasks keyed by can-parse or deserialization, each with a
\* games array
FailsSchema(e) ==
    /\ e.manifest.kind = "file"
    /\ LET doc == e.manifest.toml IN
       \/ ~doc.syntax_ok
       \/ ~doc.name.some
       \/ ~doc.project_type.some
       \/ doc.project_type.value \notin
            {<<"r","u","s","t">>, <<"g","r","a","d","l","e">>,
             <<"n","o","d","e","j","s">>, <<"g","o">>, <<"m","a","k","e">>}
       \/ ~doc.tasks.some
       \/ \E i \in 1..Len(doc.tasks.value) :
            \/ doc.tasks.value[i].key \notin {CanParseStr, DeserializationStr}
            \/ ~doc.tasks.value[i].games.some

\* the tags the tasks of e's manifest list
ListedTags(e) ==
    IF e.manifest.kind = "file" /\ e.manifest.toml.syntax_ok
          /\ e.manifest.toml.tasks.some
    THEN LET tables == e.manifest.toml.tasks.value IN
         UNION {{tables[i].games.value[k] : k \in 1..Len(tables[i].games.value)} :
                    i \in {j \in 1..Len(tables) : tables[j].games.some}}
    ELSE {}

RecognizedTags == {Eu4Str, Ck3Str, Vic3Str, Hoi4Str, ImperatorStr, StellarisStr}

\* C14: loading an implementation from a directory whose manifest is
\* missing, fails the schema, or lists a tag that is not a recognized game,
\* is an error without an Implementation; nothing is built from it; and a
\* loaded Implementation has only recognized games, the ones its manifest lists
C14_ManifestLoadingFailsClosed ==
    /\ Len(build_all.loads) <= Len(ImplDirectories)
    /\ \A i \in 1..Len(build_all.loads) :
         LET e == ImplDirectories[i]
             loaded == build_all.loads[i]
         IN /\ (\/ ManifestMissing(e)
                \/ FailsSchema(e)
                \/ ListedTags(e) \ RecognizedTags # {})
                => /\ loaded.kind = "Err"
                   /\ DOMAIN loaded = {"kind", "error"}
                   /\ loaded.error[1] = "Failed to load config from"
                   /\ build_all.implementations = <<>>
                   /\ build_all.attempts = <<>>
            /\ loaded.kind = "Ok" =>
                 \A t \in DOMAIN loaded.value.config.tasks :
                     \A k \in 1..Len(loaded.value.config.tasks[t]) :
                         /\ loaded.value.config.tasks[t][k] \in Game
                         /\ GameAsStr(loaded.value.config.tasks[t][k])
                              \in ListedTags(e) \cap RecognizedTags

\* a manifest that lists eu4 and then the unknown eu5 was refused
C14_Witness ==
    /\ build_all.pc = "done"
    /\ \E i \in 1..Len(build_all.loads) :
         /\ ~FailsSchema(ImplDirectories[i])
         /\ ListedTags(ImplDirectories[i]) = {Eu4Str, <<"e","u","5">>}
         /\ build_all.loads[i].kind = "Err"

\* the names of the discovered implementations, in name order
DiscoveredNames ==
    LET dirs == {ImplDirectories[i].name : i \in 1..Len(ImplDirectories)}
    IN SelectSeq(ImplNames, LAMBDA n : n \in dirs)

\* C20: once the implementations are discovered, build-all attempts them one
\* by one in name order, each once, whatever the earlier builds did, and
\* never stops before the last; when it finishes, every implementation was
\* attempted, successes plus failures is their number, and the result is a
\* failure exactly when a build failed
C20_BuildAllRunsToCompletion ==
    build_all.implementations # <<>> =>
        /\ Len(build_all.implementations) = Len(DiscoveredNames)
        /\ Len(build_all.attempts) <= Len(DiscoveredNames)
        /\ \A i \in 1..Len(build_all.attempts) :
               build_all.attempts[i] = DiscoveredNames[i]
        /\ build_all.pc \in {"loop", "done"}
        /\ build_all.pc = "done" =>
               /\ build_all.attempts = DiscoveredNames
               /\ build_all.success_count + Len(build_all.failed_implementations)
                    = Len(DiscoveredNames)
               /\ build_all.result.kind \in {"Ok", "Err"}
               /\ build_all.result.kind = "Err"
                    <=> build_all.failed_implementations # <<>>

\* the manifest of directory e is there, passes the schema and lists only
\* recognized games
ValidManifest(e) ==
    /\ ~ManifestMissing(e)
    /\ ~FailsSchema(e)
    /\ ListedTags(e) \subseteq RecognizedTags

\* C22: when build-all has discovered the implementations, a directory
\* whose manifest is missing or invalid is skipped and every directory with
\* a valid manifest is discovered, and none of the skipped; the command
\* goes on to build the discovered ones
C22_ConfigurationErrorsIsolated ==
    build_all.pc # "start" =>
        /\ \A i \in 1..Len(ImplDirectories) :
             ValidManifest(ImplDirectories[i])
               <=> \E k \in 1..Len(build_all.implementations) :
                     build_all.implementations[k].name = ImplDirectories[i].name
        /\ (\E i \in 1..Len(ImplDirectories) : ValidManifest(ImplDirectories[i]))
             => build_all.result.kind # "Err"
                  \/ build_all.failed_implementations # <<>>

\* C29: whatever build command a discovered implementation resolves to,
\* an empty override included, build returns a Built executor or an error,
\* and build-all is never ended by a panic before its summary
C29_BuildNeverCrashes ==
    /\ \A i \in 1..Len(build_all.implementations) :
         \A process \in BuildProcessOutcomes :
            build(build_all.implementations[i], process).kind \in {"Ok", "Err"}
    /\ build_all.pc # "panicked"

(***************************************************************************)
(* The deserialization benchmark (deserialization.rs 40-251)                *)
(***************************************************************************)
\* an f64 quotient n / d with d > 0, kept exact and in lowest terms
Ratio(n, d) ==
    LET RECURSIVE Gcd(_, _)
        Gcd(a, b) == IF b = 0 THEN a ELSE Gcd(b, a % b)
        g == Gcd(n, d)
    IN [num |-> n \div g, den |-> d \div g]

\* a variant of FileResult that takes an Error for a Success of no duration
FileResultLenient(implementation, save_file, executed) ==
    [game |-> save_file.detected_game,
     implementation |-> implementation.name,
     data_size_bytes |-> save_file.size,
     result |->
        IF executed.kind = "Ok"
        THEN [kind |-> "Success",
              elapsed_ms |-> IF executed.value.kind = "Success"
                             THEN executed.value.elapsed \div 1000 ELSE 0]
        ELSE [kind |-> "Failed"]]

\* run_benchmarks_on_files, for one save file: executed is what execute
\* returned for the file's data; the elapsed time of a Success is a number of
\* microseconds (Duration::from_micros) and as_millis drops what is below a
\* millisecond
FileResult(implementation, save_file, executed) ==
    [game |-> save_file.detected_game,
     implementation |-> implementation.name,
     data_size_bytes |-> save_file.size,
     result |->
        IF executed.kind = "Ok" /\ executed.value.kind = "Success"
        THEN [kind |-> "Success", elapsed_ms |-> executed.value.elapsed \div 1000]
        ELSE [kind |-> "Failed"]]

\* deserialization.rs 150-157: MB/s of one Success
Throughput(file_result) ==
    LET mb_size == Ratio(file_result.data_size_bytes, 1024 * 1024)
        seconds == Ratio(file_result.result.elapsed_ms, 1000)
    IN IF seconds.num > 0
       THEN Ratio(mb_size.num * seconds.den, mb_size.den * seconds.num)
       ELSE Ratio(0, 1)

\* deserialization.rs 166-170: throughputs.iter().sum() / throughputs.len()
Average(throughputs) ==
    LET RECURSIVE Sum(_)
        Sum(s) ==
            IF s = <<>> THEN Ratio(0, 1)
            ELSE LET rest == Sum(Tail(s)) IN
                 Ratio(Head(s).num * rest.den + rest.num * Head(s).den,
                       Head(s).den * rest.den)
    IN IF throughputs = <<>> THEN Ratio(0, 1)
       ELSE Ratio(Sum(throughputs).num, Sum(throughputs).den * Len(throughputs))

\* deserialization.rs 141-182: the PerformanceResult of a game's file results,
\* with the throughputs it averages
PerformanceResult(game, task_type, file_results) ==
    LET succeeded == SelectSeq(file_results, LAMBDA r : r.result.kind = "Success")
        failed == SelectSeq(file_results, LAMBDA r : r.result.kind = "Failed")
        throughputs == [i \in 1..Len(succeeded) |-> Throughput(succeeded[i])]
        RECURSIVE Bytes(_)
        Bytes(s) == IF s = <<>> THEN 0
                    ELSE Head(s).data_size_bytes + Bytes(Tail(s))
    IN [game |-> game,
        test_type |-> TaskAsStr(task_type),
        total_files |-> Len(file_results),
        avg_throughput_mbps |-> Average(throughputs),
        total_data_mb |-> Ratio(Bytes(file_results), 1024 * 1024),
        failed_files |-> [i \in 1..Len(failed) |-> <<"File failed: ", failed[i].game>>],
        throughputs |-> throughputs]

(***************************************************************************)
(* SpecBench: run_impl_benchmarks on one implementation, and                *)
(* run_benchmark_table on all of them, over the files of corpus/saves       *)
(***************************************************************************)
MaxSaves == 2

\* the save files find_save_files yields: two of eu4 (1 MiB and 3 MiB) and an
\* empty one of ck3; the loaded implementations, which build with their
\* project type's command and declare games for the deserialization task;
\* the command is the benchmark of one implementation or the table of all
BenchSetups ==
    LET save_files ==
            { [file_path |-> "corpus/saves/eu4/a.eu4", detected_game |-> "Eu4",
               size |-> 1048576],
              [file_path |-> "corpus/saves/eu4/b.eu4", detected_game |-> "Eu4",
               size |-> 3145728],
              [file_path |-> "corpus/saves/ck3/c.ck3", detected_game |-> "Ck3",
               size |-> 0] }
        implementation(name, games) ==
            [name |-> name, path |-> name,
             config |-> [project_type |-> "Rust", execution |-> None,
                         tasks |-> IF games = <<>> THEN NoTasks
                                   ELSE [t \in {"Deserialization"} |-> games]]]
        game_lists == {<<>>, <<"Eu4">>, <<"Ck3", "Eu4">>}
    IN [command : {"benchmark"},
        implementations : {<<implementation(ImplNames[1], g)>> : g \in game_lists},
        save_files : {s \in StringsUpTo(save_files, MaxSaves) :
                        \A i, j \in 1..Len(s) : i # j => s[i] # s[j]}]
       \cup
       [command : {"table"},
        implementations :
            {<<implementation(ImplNames[1], g)>> : g \in game_lists}
              \cup {<<implementation(ImplNames[1], g),
                      implementation(ImplNames[2], h)>> :
                        g \in game_lists, h \in game_lists},
        save_files : {s \in StringsUpTo(save_files, MaxSaves) :
                        \A i, j \in 1..Len(s) : i # j => s[i] # s[j]}]

\* what execute returns for a file: a Success with the worker's microseconds,
\* an Error, or a harness-level error
Executed ==
    {Ok(Success(u)) : u \in {0, 500, 1000, 1500, 2000000}}
        \cup {Ok(Error(<<"parse error">>)), Err(<<"io error">>)}

\* implementation and game index the loops; files, next and file_results are
\* run_benchmarks_on_files; builds and executions log the calls made, an
\* execution with the game index (round) it was made for
NotBenchmarking ==
    [pc |-> "start", implementation |-> 1, game |-> 1, files |-> <<>>,
     next |-> 1, file_results |-> <<>>, results |-> <<>>,
     all_file_results |-> <<>>, builds |-> <<>>, executions |-> <<>>,
     result |-> NoResult]

BenchInit ==
    /\ bench_setup \in BenchSetups
    /\ bench = NotBenchmarking

\* run_implementation_benchmarks: the next game of the implementation, whose
\* benchmark starts with a build (deserialization.rs 52-56, 123-139); a build
\* error is the command's error, and after the last game the results are
\* returned
BenchmarkGame ==
    /\ bench_setup.command = "benchmark"
    /\ bench.pc = "start"
    /\ LET implementation == bench_setup.implementations[1]
           supported_games == games_for_task(implementation, "Deserialization")
       IN IF bench.game > Len(supported_games)
          THEN bench' = [bench EXCEPT !.pc = "done", !.result = Ok(bench.results)]
          ELSE \E process \in BuildProcessOutcomes :
                 LET built == build_implementation(implementation, process)
                     builds == Append(bench.builds,
                                      [implementation |-> implementation.name,
                                       built |-> built])
                 IN bench' =
                      IF built.kind = "Err"
                      THEN [bench EXCEPT !.pc = "done", !.builds = builds,
                                         !.result = built]
                      ELSE [bench EXCEPT
                              !.pc = "files", !.builds = builds, !.next = 1,
                              !.file_results = <<>>,
                              !.files =
                                SelectSeq(bench_setup.save_files,
                                    LAMBDA s : s.detected_game
                                                 = supported_games[bench.game])]
    /\ UNCHANGED bench_setup

\* the implementations of the table's loop
TableImplementations ==
    SelectSeq(bench_setup.implementations,
              LAMBDA x : supports_task(x, "Deserialization"))

\* run_benchmarks_on_files: one iteration of the loop over the save files,
\* for the implementation the executor was built from
BenchmarkFile ==
    /\ bench.pc = "files"
    /\ bench.next <= Len(bench.files)
    /\ \E executed \in Executed :
         LET implementation ==
                 IF bench_setup.command = "table"
                 THEN TableImplementations[bench.implementation]
                 ELSE bench_setup.implementations[1]
             save_file == bench.files[bench.next]
         IN bench' =
              [bench EXCEPT
                 !.next = @ + 1,
                 !.file_results =
                     Append(@, FileResult(implementation, save_file, executed)),
                 !.executions =
                     Append(@, [implementation |-> implementation.name,
                                round |-> bench.game,
                                save_file |-> save_file,
                                executed |-> executed])]
    /\ UNCHANGED bench_setup

\* deserialization.rs 141-182 and 57: the game's PerformanceResult is pushed
BenchmarkReport ==
    /\ bench_setup.command = "benchmark"
    /\ bench.pc = "files"
    /\ bench.next > Len(bench.files)
    /\ LET implementation == bench_setup.implementations[1]
           game == games_for_task(implementation, "Deserialization")[bench.game]
       IN bench' =
            [bench EXCEPT
               !.pc = "start",
               !.game = @ + 1,
               !.results =
                   Append(@, PerformanceResult(game, "Deserialization",
                                               bench.file_results))]
    /\ UNCHANGED bench_setup

\* run_benchmark_table up to its loop: find_implementations_for_task keeps
\* the implementations that support the task and fails when there is none
TableStart ==
    /\ bench_setup.command = "table"
    /\ bench.pc = "start"
    /\ bench' =
         IF \A i \in 1..Len(bench_setup.implementations) :
                ~supports_task(bench_setup.implementations[i], "Deserialization")
         THEN [bench EXCEPT
                 !.pc = "done",
                 !.result =
                     Err(<<"No implementations found for task ",
                           TaskAsStr("Deserialization")>>)]
         ELSE [bench EXCEPT !.pc = "table"]
    /\ UNCHANGED bench_setup

\* deserialization.rs 197-232: the next implementation of the table; without
\* supported files it is skipped; a failed build gives a Failed result with
\* no bytes for every supported file; after the last the table is returned
TableImplementation ==
    /\ bench.pc = "table"
    /\ IF bench.implementation > Len(TableImplementations)
       THEN bench' =
              [bench EXCEPT
                 !.pc = "done",
                 !.result =
                    Ok([files |-> bench.all_file_results,
                        implementations |->
                            [i \in 1..Len(TableImplementations) |->
                                TableImplementations[i].name]])]
       ELSE LET implementation == TableImplementations[bench.implementation]
                supported_games ==
                    games_for_task(implementation, "Deserialization")
                supported_files ==
                    SelectSeq(bench_setup.save_files,
                              LAMBDA s : Contains(supported_games, s.detected_game))
            IN IF supported_files = <<>>
               THEN bench' = [bench EXCEPT !.implementation = @ + 1]
               ELSE \E process \in BuildProcessOutcomes :
                      LET built == build_implementation(implementation, process)
                          builds == Append(bench.builds,
                                           [implementation |-> implementation.name,
                                            built |-> built])
                      IN bench' =
                           IF built.kind = "Err"
                           THEN [bench EXCEPT
                                   !.implementation = @ + 1,
                                   !.builds = builds,
                                   !.all_file_results =
                                       @ \o [i \in 1..Len(supported_files) |->
                                               [game |-> supported_files[i].detected_game,
                                                implementation |-> implementation.name,
                                                data_size_bytes |-> 0,
                                                result |-> [kind |-> "Failed"]]]]
                           ELSE [bench EXCEPT
                                   !.pc = "files", !.builds = builds,
                                   !.next = 1, !.file_results = <<>>,
                                   !.files = supported_files]
    /\ UNCHANGED bench_setup

\* deserialization.rs 234-240: all_file_results.extend(file_results)
TableExtend ==
    /\ bench_setup.command = "table"
    /\ bench.pc = "files"
    /\ bench.next > Len(bench.files)
    /\ bench' = [bench EXCEPT
                    !.pc = "table",
                    !.implementation = @ + 1,
                    !.all_file_results = @ \o bench.file_results]
    /\ UNCHANGED bench_setup

BenchIdle ==
    /\ bench_setup = [command |-> "none"]
    /\ bench = [pc |-> "idle"]

(***************************************************************************)
(* Claims about the benchmark (SpecBench)                                   *)
(***************************************************************************)
\* the executions made for the k-th result of the benchmark of one
\* implementation
ExecutionsOf(k) == SelectSeq(bench.executions, LAMBDA e : e.round = k)

Succeeded(e) == e.executed.kind = "Ok" /\ e.executed.value.kind = "Success"

\* (b / 1,048,576) / (u / 1,000,000), and 0 for u = 0
MegabytesPerSecond(b, u) ==
    IF u = 0 THEN Ratio(0, 1)
    ELSE LET mb == Ratio(b, 1048576)
             s == Ratio(u, 1000000)
         IN Ratio(mb.num * s.den, mb.den * s.num)

\* C17: the throughputs that a result averages are, in order, those of the
\* Success executions of its round, each (b / 1,048,576) / (u / 1,000,000)
\* for the b bytes of the file and the u microseconds the worker reported,
\* and 0 for u = 0
C17_PerFileThroughput ==
    bench_setup.command = "benchmark" =>
        \A k \in 1..Len(bench.results) :
            LET successes == SelectSeq(ExecutionsOf(k), Succeeded)
                throughputs == bench.results[k].throughputs
            IN /\ Len(throughputs) = Len(successes)
               /\ \A i \in 1..Len(successes) :
                    throughputs[i] =
                        MegabytesPerSecond(successes[i].save_file.size,
                                           successes[i].executed.value.elapsed)

\* the sum of quotients
RECURSIVE RatioSum(_)
RatioSum(s) ==
    IF s = <<>> THEN Ratio(0, 1)
    ELSE Ratio(Head(s).num * RatioSum(Tail(s)).den
                  + RatioSum(Tail(s)).num * Head(s).den,
               Head(s).den * RatioSum(Tail(s)).den)

\* C18: in every result of the benchmark of one implementation, the
\* throughputs averaged are those of the Success files of the game, one each
\* (at the millisecond resolution of the file results); the average is their
\* sum divided by their number, and 0 when there is none; every other file
\* is one entry of failed_files; total_files is the number of throughputs
\* plus the number of failed files
C18_AggregateThroughput ==
    bench_setup.command = "benchmark" =>
        \A k \in 1..Len(bench.results) :
            LET r == bench.results[k]
                successes == SelectSeq(ExecutionsOf(k), Succeeded)
                failures == SelectSeq(ExecutionsOf(k), LAMBDA e : ~Succeeded(e))
                n == Len(r.throughputs)
            IN /\ n = Len(successes)
               /\ \A i \in 1..n :
                    r.throughputs[i] =
                        MegabytesPerSecond(
                            successes[i].save_file.size,
                            1000 * (successes[i].executed.value.elapsed \div 1000))
               /\ r.avg_throughput_mbps =
                    (IF n = 0 THEN Ratio(0, 1)
                     ELSE Ratio(RatioSum(r.throughputs).num,
                                RatioSum(r.throughputs).den * n))
               /\ Len(r.failed_files) = Len(failures)
               /\ \A i \in 1..Len(failures) :
                    r.failed_files[i]
                        = <<"File failed: ", failures[i].save_file.detected_game>>
               /\ r.total_files = n + Len(r.failed_files)
               /\ r.total_files = Len(ExecutionsOf(k))

\* a result over two files of which one failed: the average is the
\* throughput of the other
C18_Witness ==
    /\ bench_setup.command = "benchmark"
    /\ bench.pc = "done"
    /\ \E k \in 1..Len(bench.results) :
         /\ bench.results[k].total_files = 2
         /\ Len(bench.results[k].failed_files) = 1
         /\ bench.results[k].avg_throughput_mbps = bench.results[k].throughputs[1]
         /\ bench.results[k].avg_throughput_mbps.num > 0

\* the save files whose game the implementation of this name declares for
\* the deserialization task
FixturesOf(name) ==
    LET x == CHOOSE y \in {bench_setup.implementations[i] :
                             i \in 1..Len(bench_setup.implementations)} :
                 y.name = name
    IN SelectSeq(bench_setup.save_files,
                 LAMBDA s : \E i \in 1..Len(games_for_task(x, "Deserialization")) :
                     games_for_task(x, "Deserialization")[i] = s.detected_game)

\* C19: a build that fails during a benchmark does not make the command
\* fail; no worker is executed for the build; in the table of all
\* implementations the implementation has exactly one Failed result of zero
\* bytes for each save file whose game it declares, and in the benchmark of
\* one implementation the game's result lists each of its files as failed,
\* with no data measured
C19_BenchmarkBuildFailure ==
    \A j \in 1..Len(bench.builds) :
        bench.builds[j].built.kind = "Err" =>
            LET name == bench.builds[j].implementation
                got == SelectSeq(bench.all_file_results,
                                 LAMBDA r : r.implementation = name)
            IN /\ bench.result.kind # "Err"
               /\ bench_setup.command = "table" =>
                    /\ Len(got) = Len(FixturesOf(name))
                    /\ \A i \in 1..Len(got) :
                         got[i] = [game |-> FixturesOf(name)[i].detected_game,
                                   implementation |-> name,
                                   data_size_bytes |-> 0,
                                   result |-> [kind |-> "Failed"]]
                    /\ \A i \in 1..Len(bench.executions) :
                         bench.executions[i].implementation # name
               /\ bench_setup.command = "benchmark" =>
                    /\ ExecutionsOf(j) = <<>>
                    /\ bench.pc = "done" =>
                         /\ Len(bench.results) >= j
                         /\ bench.results[j].total_files
                              = Len(bench.results[j].failed_files)
                         /\ bench.results[j].total_data_mb = Ratio(0, 1)

\* C26: within one benchmark command the build command of an
\* implementation is run at most once, whatever the number of games it
\* declares, and every worker invocation of the implementation comes after a
\* successful build of it
C26_BuildOnce ==
    /\ \A j, k \in 1..Len(bench.builds) :
         j # k => bench.builds[j].implementation # bench.builds[k].implementation
    /\ \A i \in 1..Len(bench.executions) :
         \E j \in 1..Len(bench.builds) :
            /\ bench.builds[j].implementation = bench.executions[i].implementation
            /\ bench.builds[j].built.kind = "Ok"

\* C28: the Success decision (line 1 parses as u64) and the Error-message
\* decision (line 1 parses as u128) take the same first lines for numbers,
\* whatever their magnitude; hence a reply with a successful exit and at
\* least two lines of stdout is never an Error whose message is line 2 taken
\* verbatim: that message needs a non-zero exit
C28_ConsistentNumericTest ==
    (outcome # NoOutcome /\ Len(ReplyLines) >= 1) =>
        /\ ParseU64(ReplyLines[1]).ok <=> ParseU128(ReplyLines[1]).ok
        /\ IsUnsignedUpTo(ReplyLines[1], U64Max)
             <=> IsUnsignedUpTo(ReplyLines[1], U128Max)
        /\ (StatusSuccess(reply.status) /\ Len(ReplyLines) >= 2
              /\ outcome.kind = "Error")
             => ~(IsUnsignedUpTo(ReplyLines[1], U128Max)
                    /\ outcome.error = ReplyLines[2])

(***************************************************************************)
(* Claims about the resolved commands (SpecCommand)                         *)
(***************************************************************************)
\* the manifest's override of a phase's command, if it has one
Override(implementation, phase) ==
    LET execution == implementation.config.execution IN
    IF execution.some THEN execution.value[phase] ELSE None

\* C27: the command of each phase is the manifest's override of that phase
\* when there is one and the project type's default otherwise, also when the
\* [execution] table sets only the other phase's command; and when the run
\* command splits into no token, execute returns the error "Empty run
\* command" and spawns nothing
C27_CommandResolution ==
    LET implementation == call.implementation
        defaults == get_project_config(implementation.config.project_type)
        build_override == Override(implementation, "build_command")
        run_override == Override(implementation, "run_command")
        run_command == ResolveRunCommand(implementation)
    IN /\ ResolveBuildCommand(implementation) =
            (IF build_override.some THEN build_override
             ELSE defaults.build_command)
       /\ run_command =
            (IF run_override.some THEN run_override.value
             ELSE defaults.run_command)
       /\ spawned # NotSpawned =>
            /\ (ShellSplit(run_command).ok /\ ShellSplit(run_command).parts = <<>>)
                 <=> spawned = [ok |-> FALSE, error |-> "Empty run command"]
            /\ (~run_override.some /\ implementation.config.project_type = "Make")
                 => /\ spawned.ok
                    /\ spawned.program = Make
                    /\ spawned.args[1] = <<"r","u","n">>

\* execute was called with a run-command override of blanks only and
\* returned the empty-command error
C27_Witness ==
    /\ Override(call.implementation, "run_command") = Some(<<" ", " ">>)
    /\ spawned = [ok |-> FALSE, error |-> "Empty run command"]

(***************************************************************************)
(* Claims about the child processes (SpecExecute)                           *)
(***************************************************************************)
\* the child that execute started is alive: it runs and has not exited
ChildAlive == child.pc = "running"

\* C23: the harness never goes on to the next worker or build while a child
\* it started is alive: when execute returns, be it with a reply or with a
\* harness-level error such as a failed write to the worker's stdin, the
\* child it spawned has exited
C23_SerializedExecution == exec.pc = "returned" => ~ChildAlive

\* the harness has written all of content and closed the stdin pipe
StdinDone == exec.written = Len(exec.content) /\ ~pipe.stdin_w_open

\* a step in which the harness takes a byte of the worker's stdout or
\* stderr, or ends its wait for the worker's exit with the reply
ReadingStep ==
    \/ exec'.stdout # exec.stdout
    \/ exec'.stderr # exec.stderr
    \/ exec.pc = "wait" /\ exec'.pc = "returned"

\* C25: within one invocation the harness writes all of content to the
\* worker's stdin and closes it before it reads a byte of stdout or stderr
\* or waits for the exit: no reading step is taken, and nothing has been
\* read, while the stdin pipe is open or content is left to write
C25_StdinBeforeOutput ==
    /\ []((exec.pc = "wait" \/ exec.stdout # <<>> \/ exec.stderr # <<>>)
            => StdinDone)
    /\ [][ReadingStep => StdinDone]_vars

\* a reply was read after a content longer than the stdin pipe was written,
\* from a worker that wrote while it read
C25_Witness ==
    /\ exec.pc = "returned"
    /\ exec.result.kind = "Ok"
    /\ Len(exec.content) > PipeCap
    /\ exec.written = Len(exec.content)
    /\ child.plan.kind = "streaming"
    /\ exec.stdout = WorkerStdout
    /\ exec.stderr # <<>>

(***************************************************************************)
(* SpecAll: run_all_can_parse over the directories of impls/ and the files  *)
(* of corpus/game (implementation.rs 67-81, can_parse.rs 157-208)           *)
(***************************************************************************)
\* find_implementations_for_task
find_implementations_for_task(entries, task) ==
    LET all_implementations == find_all_implementations(entries).result IN
    IF all_implementations.kind = "Err" THEN all_implementations
    ELSE LET task_implementations ==
                 SelectSeq(all_implementations.value,
                           LAMBDA x : supports_task(x, task))
         IN IF task_implementations = <<>>
            THEN Err(<<"No implementations found for task ", TaskAsStr(task)>>)
            ELSE Ok(task_implementations)

\* impls/ with one or two directories: manifests that declare eu4 or ck3 for
\* can-parse, one of them with an empty build-command, a manifest with the
\* deserialization task only, and a directory without a manifest
BatchImplsDirs ==
    LET document(execution, key, tag) ==
            [kind |-> "file",
             toml |-> [syntax_ok |-> TRUE, name |-> Some(<<"x">>),
                       project_type |-> Some(<<"r","u","s","t">>),
                       execution |-> execution,
                       tasks |-> Some(<<[key |-> key, games |-> Some(<<tag>>)]>>)]]
        manifests ==
            {document(None, CanParseStr, Eu4Str),
             document(None, CanParseStr, Ck3Str),
             document(Some([build_command |-> Some(CmdEmpty),
                            run_command |-> None]), CanParseStr, Eu4Str),
             document(None, DeserializationStr, Eu4Str),
             [kind |-> "missing"]}
    IN {d \in ImplsDirs \cup
                StringsUpTo({[name |-> ImplNames[k], is_dir |-> TRUE,
                              manifest |-> m] :
                                k \in 1..Len(ImplNames), m \in manifests},
                            MaxImpls) :
            /\ d # <<>>
            /\ \A i \in 1..Len(d) :
                 d[i].manifest \in manifests /\ d[i].name # ImplNames[3]
            /\ \A i, j \in 1..Len(d) : i # j => d[i].name # d[j].name}

\* corpus/game with the files tagged eu4 and "eu4 ck3"
BatchCorpusDirs ==
    {d \in CorpusDirs :
        \A i \in 1..Len(d) : d[i].path.file_name \in {"eu4.txt", "both.txt"}}

\* implementations and next are the loop of can_parse.rs 184-186; processed
\* logs, for each implementation the loop took up, what its build returned
NotStarted ==
    [pc |-> "start", implementations |-> <<>>, next |-> 1,
     all_results |-> <<>>, all_failures |-> <<>>, processed |-> <<>>,
     result |-> NoResult]

BatchInit ==
    /\ impls_dir \in BatchImplsDirs
    /\ build_all = [pc |-> "idle"]
    /\ corpus_dir \in BatchCorpusDirs
    /\ target = [name |-> "none"]
    /\ run = [pc |-> "idle"]
    /\ batch = NotStarted

\* can_parse.rs 177-178: find_implementations_for_task(TaskType::CanParse)?
BatchFind ==
    /\ batch.pc = "start"
    /\ LET implementations == find_implementations_for_task(impls_dir, "CanParse")
       IN batch' =
            IF implementations.kind = "Err"
            THEN [batch EXCEPT !.pc = "done", !.result = implementations]
            ELSE [batch EXCEPT !.pc = "loop",
                               !.implementations = implementations.value]
    /\ UNCHANGED <<target, corpus_dir, run>>

\* can_parse.rs 184-185: process_implementation_can_parse is called for the
\* next implementation
BatchProcess ==
    /\ batch.pc = "loop"
    /\ batch.next <= Len(batch.implementations)
    /\ target' = batch.implementations[batch.next]
    /\ run' = NotRun
    /\ batch' = [batch EXCEPT !.pc = "processing"]
    /\ UNCHANGED corpus_dir

\* can_parse.rs 162-172 and 185: the implementation's rows and failures are
\* pushed, and an error ends run_all_can_parse (the ? operator); a panic ends
\* the process
BatchPush ==
    /\ batch.pc = "processing"
    /\ run.pc \in {"done", "panicked"}
    /\ LET processed ==
               Append(batch.processed,
                      [implementation |-> target.name, built |-> run.built,
                       executions |-> Len(run.executions)])
       IN batch' =
            IF run.pc = "panicked"
            THEN [batch EXCEPT !.pc = "panicked", !.processed = processed]
            ELSE IF run.result.kind = "Err"
            THEN [batch EXCEPT !.pc = "done", !.processed = processed,
                               !.result = run.result]
            ELSE [batch EXCEPT
                    !.pc = "loop",
                    !.next = @ + 1,
                    !.processed = processed,
                    !.all_results = @ \o run.result.value.results,
                    !.all_failures = @ \o run.result.value.failures]
    /\ run' = [pc |-> "idle"]
    /\ UNCHANGED <<target, corpus_dir>>

\* can_parse.rs 188-207: the table
BatchReturn ==
    /\ batch.pc = "loop"
    /\ batch.next > Len(batch.implementations)
    /\ batch' =
         [batch EXCEPT
            !.pc = "done",
            !.result =
                Ok([results |-> batch.all_results,
                    implementations |->
                        [i \in 1..Len(batch.implementations) |->
                            batch.implementations[i].name],
                    games |->
                        SortGames({batch.all_results[i].game :
                                     i \in 1..Len(batch.all_results)}),
                    failures |-> batch.all_failures])]
    /\ UNCHANGED <<target, corpus_dir, run>>

BatchIdle == batch = [pc |-> "idle"]

(***************************************************************************)
(* Claims about the conformance run of all implementations (SpecAll)        *)
(***************************************************************************)
\* the batch has ended: run_all_can_parse returned, or the process died
BatchEnded == batch.pc \in {"done", "panicked"}

\* the names of the implementations the loop has taken up
ProcessedNames ==
    {batch.processed[j].implementation : j \in 1..Len(batch.processed)}

\* C21: once the implementations that support the task are discovered, no
\* failure while one of them is processed stops the batch: when the batch
\* has ended, every discovered implementation was processed and the batch
\* returned its table
C21_BatchRunsToCompletion ==
    (BatchEnded /\ batch.implementations # <<>>) =>
        /\ batch.result.kind = "Ok"
        /\ \A i \in 1..Len(batch.implementations) :
             batch.implementations[i].name \in ProcessedNames

\* the rows of a table for the implementation of this name: what
\* print_github_summary looks up (can_parse.rs 213-219, 235-237)
RowsOf(table, name) ==
    SelectSeq(table.results, LAMBDA r : r.implementation = name)

\* C30: in the table run_all_can_parse returns, every listed implementation
\* has at least one row, so that the summary's lookup of its rows finds
\* them, also when its build failed; and the table's games are the games of
\* the rows, each once, in the games' order
C30_ListedImplementationsHaveResults ==
    (batch.pc = "done" /\ batch.result.kind = "Ok") =>
        LET table == batch.result.value IN
        /\ \A i \in 1..Len(table.implementations) :
             RowsOf(table, table.implementations[i]) # <<>>
        /\ table.games =
             SortGames({table.results[i].game : i \in 1..Len(table.results)})
        /\ \A i, j \in 1..Len(table.games) :
             i < j => GameOrd(table.games[i]) < GameOrd(table.games[j])

(***************************************************************************)
(* Specifications                                                           *)
(***************************************************************************)
ConformanceFrame ==
    UNCHANGED <<decodeVars, commandVars, executeVars, corpusVars,
                buildAllVars, benchVars, batchVars>>

Next ==
    \/ Collect /\ ConformanceFrame
    \/ BuildSucceeds /\ ConformanceFrame
    \/ BuildFails /\ ConformanceFrame
    \/ BuildPanics /\ ConformanceFrame
    \/ ExecuteFile /\ ConformanceFrame
    \/ Finish /\ ConformanceFrame

SpecInit ==
    Init /\ DecodeIdle /\ CommandIdle /\ ExecuteIdle
        /\ CorpusIdle /\ BuildAllIdle /\ BenchIdle /\ BatchIdle

Spec == SpecInit /\ [][Next]_vars

DecodeNext ==
    Decode
        /\ UNCHANGED <<commandVars, executeVars, corpusVars, conformanceVars,
                       buildAllVars, benchVars, batchVars>>

SpecDecodeInit ==
    DecodeInit /\ CommandIdle /\ ExecuteIdle /\ CorpusIdle
        /\ ConformanceIdle /\ BuildAllIdle /\ BenchIdle /\ BatchIdle

SpecDecode == SpecDecodeInit /\ [][DecodeNext]_vars

CommandNext ==
    CommandExecute
        /\ UNCHANGED <<decodeVars, executeVars, corpusVars, conformanceVars,
                       buildAllVars, benchVars, batchVars>>

SpecCommandInit ==
    CommandInit /\ DecodeIdle /\ ExecuteIdle /\ CorpusIdle
        /\ ConformanceIdle /\ BuildAllIdle /\ BenchIdle /\ BatchIdle

SpecCommand == SpecCommandInit /\ [][CommandNext]_vars

CorpusStep ==
    ParseCorpusContent
        /\ UNCHANGED <<decodeVars, commandVars, executeVars, conformanceVars,
                       buildAllVars, benchVars, batchVars>>

SpecCorpusInit ==
    CorpusInit /\ DecodeIdle /\ CommandIdle /\ ExecuteIdle
        /\ ConformanceIdle /\ BuildAllIdle /\ BenchIdle /\ BatchIdle

SpecCorpus == SpecCorpusInit /\ [][CorpusStep]_vars

ExecuteFrame ==
    UNCHANGED <<decodeVars, commandVars, corpusVars, conformanceVars,
                buildAllVars, benchVars, batchVars>>

ExecuteNext ==
    \/ ExecCommandError /\ ExecuteFrame
    \/ ExecSpawnError /\ ExecuteFrame
    \/ ExecSpawn /\ ExecuteFrame
    \/ ExecWrite /\ ExecuteFrame
    \/ ExecWriteBrokenPipe /\ ExecuteFrame
    \/ ExecCloseStdin /\ ExecuteFrame
    \/ ExecReadStdout /\ ExecuteFrame
    \/ ExecReadStderr /\ ExecuteFrame
    \/ ExecReturn /\ ExecuteFrame
    \/ WorkerChoose /\ ExecuteFrame
    \/ WorkerRead /\ ExecuteFrame
    \/ WorkerCloseStdin /\ ExecuteFrame
    \/ WorkerWriteStdout /\ ExecuteFrame
    \/ WorkerWriteStderr /\ ExecuteFrame
    \/ WorkerExit /\ ExecuteFrame

SpecExecuteInit ==
    ExecuteInit /\ DecodeIdle /\ CommandIdle /\ CorpusIdle
        /\ ConformanceIdle /\ BuildAllIdle /\ BenchIdle /\ BatchIdle

BuildAllFrame ==
    UNCHANGED <<decodeVars, commandVars, executeVars, corpusVars,
                conformanceVars, benchVars, batchVars>>

BuildAllNext ==
    \/ FindAll /\ BuildAllFrame
    \/ BuildOne /\ BuildAllFrame
    \/ BuildOnePanics /\ BuildAllFrame
    \/ BuildSummary /\ BuildAllFrame

SpecBuildAllInit ==
    BuildAllInit /\ DecodeIdle /\ CommandIdle /\ ExecuteIdle
        /\ CorpusIdle /\ ConformanceIdle /\ BenchIdle /\ BatchIdle

SpecBuildAll == SpecBuildAllInit /\ [][BuildAllNext]_vars

BenchFrame ==
    UNCHANGED <<decodeVars, commandVars, executeVars, corpusVars,
                conformanceVars, buildAllVars, batchVars>>

BenchNext ==
    \/ BenchmarkGame /\ BenchFrame
    \/ BenchmarkFile /\ BenchFrame
    \/ BenchmarkReport /\ BenchFrame
    \/ TableStart /\ BenchFrame
    \/ TableImplementation /\ BenchFrame
    \/ TableExtend /\ BenchFrame

SpecBenchInit ==
    BenchInit /\ DecodeIdle /\ CommandIdle /\ ExecuteIdle
        /\ CorpusIdle /\ ConformanceIdle /\ BuildAllIdle /\ BatchIdle

SpecBench == SpecBenchInit /\ [][BenchNext]_vars

BatchFrame ==
    UNCHANGED <<decodeVars, commandVars, executeVars, corpusVars,
                buildAllVars, benchVars>>

AllNext ==
    \/ BatchFind /\ BatchFrame
    \/ BatchProcess /\ BatchFrame
    \/ Collect /\ ConformanceFrame
    \/ BuildSucceeds /\ ConformanceFrame
    \/ BuildFails /\ ConformanceFrame
    \/ BuildPanics /\ ConformanceFrame
    \/ ExecuteFile /\ ConformanceFrame
    \/ Finish /\ ConformanceFrame
    \/ BatchPush /\ BatchFrame
    \/ BatchReturn /\ BatchFrame

SpecAllInit ==
    BatchInit /\ DecodeIdle /\ CommandIdle /\ ExecuteIdle
        /\ CorpusIdle /\ BenchIdle

SpecAll == SpecAllInit /\ [][AllNext]_vars

\* the operating system runs a process that can take a step
SpecExecute ==
    SpecExecuteInit /\ [][ExecuteNext]_vars /\ WF_vars(ExecuteNext)
=============================================================================
